---------------------------- MODULE Spec2Model ----------------------------
(***************************************************************************)
(* forge-pack: library resolution (resolve.ts), bytecode segmenting        *)
(* (codegen.ts) and the batch loop of the command line (cli.ts).           *)
(*                                                                         *)
(* Strings are sequences of character codes (76 = 'L', 108 = 'l',          *)
(* 50 = '2', 48 = '0', ...), so that decapitalisation, suffixing and       *)
(* slicing are computed, not looked up.  A LinkReferences object is the    *)
(* sequence of its entries in Object.entries order:                        *)
(*   << [file |-> f, libs |-> << [lib |-> l, refs |-> << [start, length]   *)
(*   >>] >>] >>                                                            *)
(* with distinct files, and distinct libs inside one file.                 *)
(***************************************************************************)
EXTENDS Integers, Sequences, FiniteSets, TLC

VARIABLES
    \* ---- buildBytecodeSegments(bytecode, linkReferences) ----
    bytecode,        \* hex string (two characters per byte)
    linkReferences,  \* LinkReferences of the artifact being segmented
    segments,        \* returned segments
    libParams,       \* returned accessor parameter list
    segPc,           \* "idle" | "input" | "built"
    \* ---- resolveLibraries(linkRefs, outDir) ----
    linkRefs,        \* LinkReferences of the root contract
    outDir,          \* what has been read of the artifact directory, by library name
    resolved,        \* Map key -> ResolvedLibrary, as its values in insertion order
    visiting,        \* Set of keys
    stack,           \* activations of resolve(), innermost last
    topIdx,          \* position of the top-level loop in collectLibIds(linkRefs)
    lookups,         \* keys for which findArtifact/parseArtifact were called, in order
    libs,            \* the returned array
    error,           \* the Error thrown, if any
    resPc,           \* "idle" | "running" | "returned" | "failed"
    \* ---- cli.ts, from the loop over the positionals to the exit ----
    positionals,     \* the requested contract names
    world,           \* per contract name, what the calls of the loop body meet
    cliIdx,          \* position of the loop in positionals
    hasError,        \* the flag of line 61
    calls,           \* calls made by the loop body, with the iteration making them
    written,         \* deployer files written
    reported,        \* console.error lines, as the contracts they name
    exitCode,        \* exit status of the process
    cliPc,           \* "idle" | "loop" | "exited"
    \* ---- generateDeployer(parsed, opts) ----
    genParsed,       \* the ParsedArtifact argument
    genOpts,         \* the options argument: [libraries]
    genOut,          \* the generated deployer, as its parts in order
    genPc,           \* "idle" | "input" | "generated"
    \* ---- DeployHelper on a chain ----
    accounts,        \* address -> [code, nonce]
    libCreates,      \* address -> create2 executions made by deployLibrary
    results,         \* what deployLibrary returned: {[deployer, initcode, address]}
    lastCall,        \* the call just made and its outcome
    nCalls,          \* calls made so far
    \* ---- artifact.ts: findArtifact, parseArtifact ----
    artDir,          \* the entries of outDir, in readdirSync order
    artRaw,          \* the JSON document of the file handed to parseArtifact
    artFound,        \* what findArtifact gave: [threw, path]
    artParsed,       \* what parseArtifact returned
    artPc,           \* "idle" | "lookup" | "found" | "read" | "parsed"
    \* ---- resolveLibraries called again and again on one directory ----
    firstCall,       \* the first call: [status, linkRefs, libs, error]
    betweenFailed    \* a call after the first one failed with a cycle

segVars == <<bytecode, linkReferences, segments, libParams, segPc>>

resVars == <<linkRefs, outDir, resolved, visiting, stack, topIdx, lookups, libs,
             error, resPc>>

cliVars == <<positionals, world, cliIdx, hasError, calls, written, reported,
             exitCode, cliPc>>

genVars == <<genParsed, genOpts, genOut, genPc>>
chainVars == <<accounts, libCreates, results, lastCall, nCalls>>
artVars == <<artDir, artRaw, artFound, artParsed, artPc>>
callVars == <<firstCall, betweenFailed>>

vars == <<bytecode, linkReferences, segments, libParams, segPc,
          linkRefs, outDir, resolved, visiting, stack, topIdx, lookups, libs,
          error, resPc,
          positionals, world, cliIdx, hasError, calls, written, reported,
          exitCode, cliPc,
          genParsed, genOpts, genOut, genPc,
          accounts, libCreates, results, lastCall, nCalls,
          artDir, artRaw, artFound, artParsed, artPc,
          firstCall, betweenFailed>>

\* the variables of the other parts, which an action of one part leaves alone
besidesSeg == <<resVars, cliVars, genVars, chainVars, artVars, callVars>>
besidesRes == <<segVars, cliVars, genVars, chainVars, artVars, callVars>>
besidesCli == <<segVars, resVars, genVars, chainVars, artVars, callVars>>
besidesGen == <<segVars, resVars, cliVars, chainVars, artVars, callVars>>
besidesChain == <<segVars, resVars, cliVars, genVars, artVars, callVars>>
besidesArt == <<segVars, resVars, cliVars, genVars, chainVars, callVars>>

(***************************************************************************)
(* Bounds                                                                  *)
(***************************************************************************)
MaxBytes == 3      \* bytes of bytecode handed to the segmenter
MaxSlotLen == 2    \* byte length of one link slot
MaxSlots == 2      \* link slots in one artifact handed to the segmenter
MaxRootSlots == 2  \* link slots of the root contract handed to the resolver
MaxLibSlots == 2   \* link slots of one library artifact in the directory
MaxContracts == 3  \* contract names on the command line
MaxGenBytes == 2   \* bytes of the contract handed to generateDeployer
MaxGenLibs == 2    \* resolved libraries in the options of generateDeployer
MaxEntries == 2    \* entries of the output directory
MaxRawBytes == 1   \* bytes of bytecode.object in a raw artifact file
MaxCalls == 3      \* calls of DeployHelper functions on one chain
MaxCtorParams == 2 \* constructor parameters of an artifact with struct parameters

(***************************************************************************)
(* Input universe                                                          *)
(***************************************************************************)
NameL == <<76>>          \* "L"
Namel == <<108>>         \* "l"
NameL2 == <<76, 50>>     \* "L2"
LibNames == {NameL, Namel, NameL2}
LibKeys == {<<"a.sol", NameL>>, <<"a.sol", Namel>>, <<"a.sol", NameL2>>,
            <<"b.sol", NameL>>}
ByteVals == {<<48, 49>>, <<102, 101>>}    \* "01", "fe"

(***************************************************************************)
(* Generic helpers                                                         *)
(***************************************************************************)
Min(a, b) == IF a < b THEN a ELSE b

RECURSIVE ConcatAll(_)
ConcatAll(ss) == IF ss = <<>> THEN <<>> ELSE Head(ss) \o ConcatAll(Tail(ss))

Range(s) == {s[i] : i \in 1..Len(s)}

\* String.prototype.slice(a, b) for non-negative a, b
Slice(s, a, b) ==
    LET lo == Min(a, Len(s))
        hi == Min(b, Len(s))
    IN  IF lo >= hi THEN <<>> ELSE SubSeq(s, lo + 1, hi)

\* String.prototype.toLowerCase on one ASCII character
ToLowerCase(c) == IF c >= 65 /\ c <= 90 THEN c + 32 ELSE c

\* decimal rendering of a number inside a template literal
RECURSIVE NumberToString(_)
NumberToString(n) ==
    IF n < 10 THEN <<48 + n>>
    ELSE NumberToString(n \div 10) \o <<48 + (n % 10)>>

(***************************************************************************)
(* LinkReferences values                                                   *)
(***************************************************************************)
\* the object built by inserting (file, lib, ref) triples one after another
RECURSIVE NestFlat(_)
NestFlat(flat) ==
    IF flat = <<>> THEN <<>>
    ELSE LET h == Head(flat)
             rest == NestFlat(Tail(flat))
         IN  IF rest # <<>> /\ rest[1].file = h.file
             THEN IF rest[1].libs[1].lib = h.lib
                  THEN <<[rest[1] EXCEPT !.libs[1].refs = <<h.ref>> \o @]>>
                       \o Tail(rest)
                  ELSE <<[rest[1] EXCEPT
                            !.libs = <<[lib |-> h.lib, refs |-> <<h.ref>>]>> \o @]>>
                       \o Tail(rest)
             ELSE <<[file |-> h.file,
                     libs |-> <<[lib |-> h.lib, refs |-> <<h.ref>>]>>]>> \o rest

\* keys of an object are distinct
ValidLinkRefs(lr) ==
    /\ \A i, j \in 1..Len(lr) : lr[i].file = lr[j].file => i = j
    /\ \A i \in 1..Len(lr) : \A j, k \in 1..Len(lr[i].libs) :
            lr[i].libs[j].lib = lr[i].libs[k].lib => j = k

\* every slot of a LinkReferences value, with the library it belongs to
SlotSet(lr) ==
    UNION {UNION {{[start |-> lr[i].libs[j].refs[k].start,
                    length |-> lr[i].libs[j].refs[k].length,
                    file |-> lr[i].file, lib |-> lr[i].libs[j].lib]
                   : k \in 1..Len(lr[i].libs[j].refs)}
                  : j \in 1..Len(lr[i].libs)}
           : i \in 1..Len(lr)}

Overlap(p, q) == p.start < q.start + q.length /\ q.start < p.start + p.length

\* in bounds of a bytecode of n bytes, pairwise non-overlapping, one record per slot
WellFormedSlots(lr, n) ==
    LET ss == SlotSet(lr)
        count == ConcatAll([i \in 1..Len(lr) |->
                    ConcatAll([j \in 1..Len(lr[i].libs) |-> lr[i].libs[j].refs])])
    IN  /\ Cardinality(ss) = Len(count)
        /\ \A p \in ss : p.length >= 1 /\ p.start + p.length <= n
        /\ \A p, q \in ss : p # q => ~Overlap(p, q)

SlotsIn(n) == {s \in [start : 0..(n - 1), length : 1..MaxSlotLen] :
                 s.start + s.length <= n}

\* the well-formed LinkReferences of a bytecode of n bytes, at most MaxSlots slots
LinkRefsFor(n) ==
    LET triples == [file : {k[1] : k \in LibKeys}, lib : LibNames, ref : SlotsIn(n)]
        ok == {t \in triples : <<t.file, t.lib>> \in LibKeys}
        flats == UNION {[1..m -> ok] : m \in 0..MaxSlots}
    IN  {NestFlat(f) : f \in {g \in flats :
            /\ ValidLinkRefs(NestFlat(g))
            /\ WellFormedSlots(NestFlat(g), n)}}

BytecodesOf(n) == {ConcatAll(bs) : bs \in [1..n -> ByteVals]}

(***************************************************************************)
(* resolve.ts: makeParamName                                               *)
(***************************************************************************)
makeParamName(libName) ==
    IF libName = <<>> THEN <<>>
    ELSE <<ToLowerCase(libName[1])>> \o Tail(libName)

(***************************************************************************)
(* codegen.ts: buildBytecodeSegments                                       *)
(***************************************************************************)
\* the three nested loops that push one placeholder per ref
placeholdersOf(lr) ==
    ConcatAll([i \in 1..Len(lr) |->
        ConcatAll([j \in 1..Len(lr[i].libs) |->
            [k \in 1..Len(lr[i].libs[j].refs) |->
                [start |-> lr[i].libs[j].refs[k].start,
                 length |-> lr[i].libs[j].refs[k].length,
                 file |-> lr[i].file,
                 lib |-> lr[i].libs[j].lib]]])])

\* Array.prototype.sort is stable: p goes after every element it does not precede
RECURSIVE InsertByStart(_, _)
InsertByStart(p, sorted) ==
    IF sorted = <<>> THEN <<p>>
    ELSE IF p.start - Head(sorted).start < 0 THEN <<p>> \o sorted
    ELSE <<Head(sorted)>> \o InsertByStart(p, Tail(sorted))

RECURSIVE SortByStart(_)
SortByStart(ps) ==
    IF ps = <<>> THEN <<>>
    ELSE InsertByStart(ps[Len(ps)], SortByStart(SubSeq(ps, 1, Len(ps) - 1)))

placeholderKey(p) == <<p.file, p.lib>>

\* libMap / libParams: one parameter per key, in order of first occurrence
RECURSIVE CollectLibParams(_, _, _)
CollectLibParams(ps, libMapKeys, acc) ==
    IF ps = <<>> THEN acc
    ELSE LET p == Head(ps)
         IN  IF placeholderKey(p) \in libMapKeys
             THEN CollectLibParams(Tail(ps), libMapKeys, acc)
             ELSE CollectLibParams(Tail(ps), libMapKeys \cup {placeholderKey(p)},
                     Append(acc, [name |-> makeParamName(p.lib),
                                  file |-> p.file, lib |-> p.lib]))

hexStartOf(p) == p.start * 2

\* variant: the cursor is left at the start of the slot
hexEndOfSlotStart(p) == p.start * 2

hexEndOf(p) == (p.start + p.length) * 2

\* the walk over the sorted placeholders; returns the segments and the cursor
RECURSIVE SegmentWalk(_, _, _, _)
SegmentWalk(code, ps, cursor, acc) ==
    IF ps = <<>> THEN [segments |-> acc, cursor |-> cursor]
    ELSE LET p == Head(ps)
             withHex == IF hexStartOf(p) > cursor
                        THEN Append(acc, [type |-> "hex",
                                          value |-> Slice(code, cursor, hexStartOf(p))])
                        ELSE acc
             withLib == Append(withHex, [type |-> "lib",
                                         value |-> makeParamName(p.lib)])
         IN  SegmentWalk(code, Tail(ps), hexEndOf(p), withLib)

buildBytecodeSegments(code, lr) ==
    LET sortedPs == SortByStart(placeholdersOf(lr))
    IN  IF Len(sortedPs) = 0
        THEN [segments |-> <<[type |-> "hex", value |-> code]>>, libParams |-> <<>>]
        ELSE LET walked == SegmentWalk(code, sortedPs, 0, <<>>)
                 all == IF walked.cursor < Len(code)
                        THEN Append(walked.segments,
                                [type |-> "hex",
                                 value |-> Slice(code, walked.cursor, Len(code))])
                        ELSE walked.segments
             IN  [segments |-> all,
                  libParams |-> CollectLibParams(sortedPs, {}, <<>>)]

\* no call of resolveLibraries came before
NoCall == [status |-> "none"]

CallsIdle ==
    /\ firstCall = NoCall
    /\ betweenFailed = FALSE

\* neither findArtifact nor parseArtifact is called
ArtIdle ==
    /\ artDir = <<>>
    /\ artRaw = <<>>
    /\ artFound = <<>>
    /\ artParsed = <<>>
    /\ artPc = "idle"

\* no chain is simulated
ChainIdle ==
    /\ accounts = <<>>
    /\ libCreates = <<>>
    /\ results = {}
    /\ lastCall = <<>>
    /\ nCalls = 0

\* generateDeployer is not called
GenIdle ==
    /\ genParsed = <<>>
    /\ genOpts = <<>>
    /\ genOut = <<>>
    /\ genPc = "idle"

\* the command line is not running
CliIdle ==
    /\ positionals = <<>>
    /\ world = <<>>
    /\ cliIdx = 1
    /\ hasError = FALSE
    /\ calls = <<>>
    /\ written = {}
    /\ reported = <<>>
    /\ exitCode = -1
    /\ cliPc = "idle"

\* no artifact is being segmented
SegIdle ==
    /\ bytecode = <<>>
    /\ linkReferences = <<>>
    /\ segments = <<>>
    /\ libParams = <<>>
    /\ segPc = "idle"

(***************************************************************************)
(* resolve.ts: collectLibIds                                               *)
(***************************************************************************)
RECURSIVE DedupeIds(_, _, _)
DedupeIds(ids, seen, result) ==
    IF ids = <<>> THEN result
    ELSE LET key == <<Head(ids).file, Head(ids).lib>>
         IN  IF key \notin seen
             THEN DedupeIds(Tail(ids), seen \cup {key}, Append(result, Head(ids)))
             ELSE DedupeIds(Tail(ids), seen, result)

\* variant: the seen set holds library names instead of file:lib keys
RECURSIVE DedupeIdsByLib(_, _, _)
DedupeIdsByLib(ids, seen, result) ==
    IF ids = <<>> THEN result
    ELSE IF Head(ids).lib \notin seen
         THEN DedupeIdsByLib(Tail(ids), seen \cup {Head(ids).lib},
                             Append(result, Head(ids)))
         ELSE DedupeIdsByLib(Tail(ids), seen, result)

collectLibIdsByLib(lr) ==
    DedupeIdsByLib(ConcatAll([i \in 1..Len(lr) |->
                       [j \in 1..Len(lr[i].libs) |->
                           [file |-> lr[i].file, lib |-> lr[i].libs[j].lib]]]),
                   {}, <<>>)

collectLibIds(lr) ==
    DedupeIds(ConcatAll([i \in 1..Len(lr) |->
                  [j \in 1..Len(lr[i].libs) |->
                      [file |-> lr[i].file, lib |-> lr[i].libs[j].lib]]]),
              {}, <<>>)

(***************************************************************************)
(* The artifact directory                                                  *)
(***************************************************************************)
\* the directory has not been asked for this name yet
Unread == [found |-> "unread"]
\* findArtifact throws for this name
NoArtifact == [found |-> "no"]
\* findArtifact returns a path and parseArtifact returns this artifact
Found(artifact) == [found |-> "yes", artifact |-> artifact]

\* link references over LibKeys, the k-th slot occupying byte k - 1; with
\* maxPerLib = 1 every library has one slot
LibLinkRefs(maxSlots, maxPerLib) ==
    LET flats == {g \in UNION {[1..m -> LibKeys] : m \in 0..maxSlots} :
                    \A k \in Range(g) :
                        Cardinality({i \in 1..Len(g) : g[i] = k}) <= maxPerLib}
        nested(f) == NestFlat([k \in 1..Len(f) |->
                        [file |-> f[k][1], lib |-> f[k][2],
                         ref |-> [start |-> k - 1, length |-> 1]]])
    IN  {nested(f) : f \in {g \in flats : ValidLinkRefs(nested(g))}}

SlotCount(lr) == Len(placeholdersOf(lr))

\* the parsed artifact of a library with these link references
ArtifactWith(lr) ==
    [bytecode |-> ConcatAll([k \in 1..(SlotCount(lr) + 1) |-> <<48, 49>>]),
     linkReferences |-> lr]

LibArtifacts == {ArtifactWith(lr) : lr \in LibLinkRefs(MaxLibSlots, 1)}

\* what findArtifact + parseArtifact can give for a name: the directory does
\* not change during a run, so a name read before reads the same again
Readable(lib) ==
    IF outDir[lib] = Unread
    THEN {Found(a) : a \in LibArtifacts} \cup {NoArtifact}
    ELSE {outDir[lib]}

(***************************************************************************)
(* resolve.ts: resolveLibraries, the traversal                             *)
(***************************************************************************)
keyOf(e) == <<e.file, e.lib>>

\* variant: the cache is never hit
resolvedHasNever(res, key) == FALSE

resolvedHas(res, key) == \E i \in 1..Len(res) : keyOf(res[i]) = key

resolvedGet(res, key) == res[CHOOSE i \in 1..Len(res) : keyOf(res[i]) = key]

\* variant: the map holds the last entry only
resolvedSetOnly(res, entry) == <<entry>>

\* variant: a new entry is put first
resolvedSetFirst(res, entry) == <<entry>> \o res

\* Map.prototype.set of a key: a new key goes last in iteration order
resolvedSet(res, entry) ==
    IF resolvedHas(res, keyOf(entry))
    THEN [i \in 1..Len(res) |-> IF keyOf(res[i]) = keyOf(entry) THEN entry ELSE res[i]]
    ELSE Append(res, entry)

topLevel == collectLibIds(linkRefs)

\* the resolve(file, lib) call that is about to be made
HasCall ==
    /\ resPc = "running"
    /\ IF stack = <<>> THEN topIdx <= Len(topLevel)
       ELSE stack[Len(stack)].i <= Len(stack[Len(stack)].libIds)

CallId ==
    IF stack = <<>> THEN topLevel[topIdx]
    ELSE stack[Len(stack)].libIds[stack[Len(stack)].i]

\* the caller receives the entry returned by resolve(): the top-level loop
\* drops it, an activation pushes its paramName onto deps
Returned(stk, entry) ==
    IF stk = <<>> THEN stk
    ELSE [stk EXCEPT ![Len(stk)] =
            [@ EXCEPT !.deps = Append(@, entry.paramName), !.i = @ + 1]]

ReturnedTop(stk) == IF stk = <<>> THEN topIdx + 1 ELSE topIdx

\* variant: any key in progress counts
visitingHasAny(v, key) == v # {}

\* line 35: visiting.has(key)
visitingHas(v, key) == key \in v

\* line 34: the key is resolved already
ResolveCached ==
    /\ HasCall
    /\ resolvedHas(resolved, keyOf(CallId))
    /\ stack' = Returned(stack, resolvedGet(resolved, keyOf(CallId)))
    /\ topIdx' = ReturnedTop(stack)
    /\ UNCHANGED <<linkRefs, outDir, resolved, visiting, lookups, libs, error, resPc>>
    /\ UNCHANGED besidesRes

\* lines 35-37: the key is being visited
ResolveCircular ==
    /\ HasCall
    /\ ~resolvedHas(resolved, keyOf(CallId))
    /\ visitingHas(visiting, keyOf(CallId))
    /\ error' = [kind |-> "circular", key |-> keyOf(CallId)]
    /\ resPc' = "failed"
    /\ UNCHANGED <<linkRefs, outDir, resolved, visiting, stack, topIdx, lookups, libs>>
    /\ UNCHANGED besidesRes

\* lines 38-41, findArtifact (or parseArtifact) throws
ResolveNoArtifact ==
    /\ HasCall
    /\ ~resolvedHas(resolved, keyOf(CallId))
    /\ ~visitingHas(visiting, keyOf(CallId))
    /\ NoArtifact \in Readable(CallId.lib)
    /\ outDir' = [outDir EXCEPT ![CallId.lib] = NoArtifact]
    /\ visiting' = visiting \cup {keyOf(CallId)}
    /\ lookups' = Append(lookups, keyOf(CallId))
    /\ error' = [kind |-> "no artifact", key |-> keyOf(CallId)]
    /\ resPc' = "failed"
    /\ UNCHANGED <<linkRefs, resolved, stack, topIdx, libs>>
    /\ UNCHANGED besidesRes

\* lines 38-44: first visit of a key whose artifact is found and parsed
ResolveEnter ==
    /\ HasCall
    /\ ~resolvedHas(resolved, keyOf(CallId))
    /\ ~visitingHas(visiting, keyOf(CallId))
    /\ \E read \in Readable(CallId.lib) \ {NoArtifact} :
         /\ outDir' = [outDir EXCEPT ![CallId.lib] = read]
         /\ stack' = Append(stack,
                [file |-> CallId.file, lib |-> CallId.lib, artifact |-> read.artifact,
                 libIds |-> collectLibIds(read.artifact.linkReferences),
                 i |-> 1, deps |-> <<>>])
    /\ visiting' = visiting \cup {keyOf(CallId)}
    /\ lookups' = Append(lookups, keyOf(CallId))
    /\ UNCHANGED <<linkRefs, resolved, topIdx, libs, error, resPc>>
    /\ UNCHANGED besidesRes

\* lines 50-60: the loop over libIds is over
ResolveFinish ==
    /\ resPc = "running"
    /\ stack # <<>>
    /\ stack[Len(stack)].i > Len(stack[Len(stack)].libIds)
    /\ LET f == stack[Len(stack)]
           entry == [paramName |-> makeParamName(f.lib), file |-> f.file,
                     lib |-> f.lib, artifact |-> f.artifact, deps |-> f.deps]
           popped == SubSeq(stack, 1, Len(stack) - 1)
       IN  /\ visiting' = visiting \ {keyOf(f)}
           /\ resolved' = resolvedSet(resolved, entry)
           /\ stack' = Returned(popped, entry)
           /\ topIdx' = ReturnedTop(popped)
    /\ UNCHANGED <<linkRefs, outDir, lookups, libs, error, resPc>>
    /\ UNCHANGED besidesRes

(***************************************************************************)
(* resolve.ts: resolveLibraries, lines 68-104                              *)
(***************************************************************************)
nameCountOf(ls, name) == Cardinality({i \in 1..Len(ls) : ls[i].paramName = name})

\* variant: no name is taken as colliding
collisionsOfNone(ls) == {}

collisionsOf(ls) ==
    {ls[i].paramName : i \in {j \in 1..Len(ls) : nameCountOf(ls, ls[j].paramName) > 1}}

\* variant: the first occurrence is suffixed too
suffixNeededAlways(idx) == idx > 0

suffixNeeded(idx) == idx > 1

\* lines 82-91; nameIndex maps a colliding name to the number of entries seen
RECURSIVE RenamePass(_, _, _, _)
RenamePass(ls, collisions, nameIndex, n) ==
    IF n > Len(ls) THEN ls
    ELSE IF ls[n].paramName \notin collisions
    THEN RenamePass(ls, collisions, nameIndex, n + 1)
    ELSE LET oldName == ls[n].paramName
             idx == nameIndex[oldName] + 1
             renamed == IF suffixNeeded(idx)
                        THEN [ls EXCEPT ![n].paramName = oldName \o NumberToString(idx)]
                        ELSE ls
         IN  RenamePass(renamed, collisions,
                        [nameIndex EXCEPT ![oldName] = idx], n + 1)

\* the value of Map.prototype.get for an absent key (no name is made of code 0)
Undefined == <<0>>

\* Map.prototype.get on keyToName: the name set last for the key
keyToNameGet(ls, key) ==
    IF \E i \in 1..Len(ls) : keyOf(ls[i]) = key
    THEN ls[CHOOSE i \in 1..Len(ls) :
               /\ keyOf(ls[i]) = key
               /\ \A j \in 1..Len(ls) : keyOf(ls[j]) = key => j <= i].paramName
    ELSE Undefined

\* variant: the dependency lists are left as the traversal built them
rewriteDepsSkipped(ls) == ls

\* lines 94-101
rewriteDeps(ls) ==
    [n \in 1..Len(ls) |->
        LET depLibIds == collectLibIds(ls[n].artifact.linkReferences)
        IN  [ls[n] EXCEPT !.deps =
                [d \in 1..Len(depLibIds) |-> keyToNameGet(ls, keyOf(depLibIds[d]))]]]

\* variant: the array is returned in reverse
disambiguateReversed(ls) ==
    LET collisions == collisionsOf(ls)
        out == IF Cardinality(collisions) > 0
               THEN rewriteDeps(RenamePass(ls, collisions, [c \in collisions |-> 0], 1))
               ELSE ls
    IN  [k \in 1..Len(out) |-> out[Len(out) + 1 - k]]

disambiguate(ls) ==
    LET collisions == collisionsOf(ls)
    IN  IF Cardinality(collisions) > 0
        THEN rewriteDeps(RenamePass(ls, collisions, [c \in collisions |-> 0], 1))
        ELSE ls

\* lines 68-104: the top-level loop is over, names are disambiguated in place
\* and the array is returned
ResolveReturn ==
    /\ resPc = "running"
    /\ stack = <<>>
    /\ topIdx > Len(topLevel)
    /\ libs' = disambiguate(resolved)
    /\ resolved' = disambiguate(resolved)
    /\ resPc' = "returned"
    /\ UNCHANGED <<linkRefs, outDir, visiting, stack, topIdx, lookups, error>>
    /\ UNCHANGED besidesRes

(***************************************************************************)
(* Specification of the resolver: one call of resolveLibraries             *)
(***************************************************************************)
ResIdle ==
    /\ linkRefs = <<>>
    /\ outDir = [n \in LibNames |-> Unread]
    /\ resolved = <<>>
    /\ visiting = {}
    /\ stack = <<>>
    /\ topIdx = 1
    /\ lookups = <<>>
    /\ libs = <<>>
    /\ error = [kind |-> "none"]
    /\ resPc = "idle"

Init ==
    /\ linkRefs \in LibLinkRefs(MaxRootSlots, MaxRootSlots)
    /\ outDir = [n \in LibNames |-> Unread]
    /\ resolved = <<>>
    /\ visiting = {}
    /\ stack = <<>>
    /\ topIdx = 1
    /\ lookups = <<>>
    /\ libs = <<>>
    /\ error = [kind |-> "none"]
    /\ resPc = "running"
    /\ SegIdle
    /\ CliIdle
    /\ GenIdle
    /\ ChainIdle
    /\ ArtIdle
    /\ CallsIdle

Next ==
    \/ ResolveCached
    \/ ResolveCircular
    \/ ResolveNoArtifact
    \/ ResolveEnter
    \/ ResolveFinish
    \/ ResolveReturn

Spec == Init /\ [][Next]_vars

(***************************************************************************)
(* Specification of repeated resolution: resolveLibraries is called again  *)
(* and again, with any link references, on a directory that stays the same *)
(***************************************************************************)
\* the libraries of the directory: L and l decapitalize alike, L2 does not
CallKeys == {<<"a.sol", NameL>>, <<"a.sol", Namel>>, <<"a.sol", NameL2>>}

\* the link references of one file that names some of them, in any order
CallLinkRefs ==
    LET orders == {f \in UNION {[1..m -> CallKeys] : m \in 0..Cardinality(CallKeys)} :
                     \A i, j \in 1..Len(f) : f[i] = f[j] => i = j}
    IN  {NestFlat([k \in 1..Len(f) |->
                      [file |-> f[k][1], lib |-> f[k][2],
                       ref |-> [start |-> k - 1, length |-> 1]]]) : f \in orders}

\* a library of the directory links nothing or one library
CallArtifacts ==
    {ArtifactWith(<<>>)}
    \cup {ArtifactWith(NestFlat(<< [file |-> k[1], lib |-> k[2],
                                    ref |-> [start |-> 0, length |-> 1]] >>)) :
            k \in CallKeys}

CallDirs == [LibNames -> {Found(a) : a \in CallArtifacts} \cup {NoArtifact}]

\* variant: the in-progress set of the call before is kept
visitingKept(v) == v

\* line 30: const visiting = new Set<string>()
visitingNew(v) == {}

\* line 29: const resolved = new Map<string, ResolvedLibrary>()
resolvedNew(res) == <<>>

InitCalls ==
    /\ linkRefs \in CallLinkRefs
    /\ outDir \in CallDirs
    /\ resolved = <<>>
    /\ visiting = {}
    /\ stack = <<>>
    /\ topIdx = 1
    /\ lookups = <<>>
    /\ libs = <<>>
    /\ error = [kind |-> "none"]
    /\ resPc = "running"
    /\ CallsIdle
    /\ SegIdle
    /\ CliIdle
    /\ GenIdle
    /\ ChainIdle
    /\ ArtIdle

\* the call is over, resolveLibraries is called again: lines 28-30
ResolveAgain ==
    /\ resPc \in {"returned", "failed"}
    /\ firstCall' = IF firstCall = NoCall
                    THEN [status |-> resPc, linkRefs |-> linkRefs, libs |-> libs,
                          error |-> error]
                    ELSE firstCall
    /\ betweenFailed' = IF firstCall = NoCall THEN FALSE
                        ELSE (betweenFailed
                              \/ (resPc = "failed" /\ error.kind = "circular"))
    /\ linkRefs' \in CallLinkRefs
    /\ resolved' = resolvedNew(resolved)
    /\ visiting' = visitingNew(visiting)
    /\ stack' = <<>>
    /\ topIdx' = 1
    /\ lookups' = <<>>
    /\ libs' = <<>>
    /\ error' = [kind |-> "none"]
    /\ resPc' = "running"
    /\ UNCHANGED outDir
    /\ UNCHANGED <<segVars, cliVars, genVars, chainVars, artVars>>

NextCalls ==
    \/ ResolveCached
    \/ ResolveCircular
    \/ ResolveNoArtifact
    \/ ResolveEnter
    \/ ResolveFinish
    \/ ResolveReturn
    \/ ResolveAgain

SpecCalls == InitCalls /\ [][NextCalls]_vars

(***************************************************************************)
(* Specification of the segmenter: an artifact is given, then segmented    *)
(***************************************************************************)
InitSegment ==
    /\ \E n \in 0..MaxBytes :
         /\ linkReferences \in LinkRefsFor(n)
         /\ bytecode \in BytecodesOf(n)
    /\ segments = <<>>
    /\ libParams = <<>>
    /\ segPc = "input"
    /\ ResIdle
    /\ CliIdle
    /\ GenIdle
    /\ ChainIdle
    /\ ArtIdle
    /\ CallsIdle

BuildSegments ==
    /\ segPc = "input"
    /\ LET r == buildBytecodeSegments(bytecode, linkReferences)
       IN  /\ segments' = r.segments
           /\ libParams' = r.libParams
    /\ segPc' = "built"
    /\ UNCHANGED <<bytecode, linkReferences>>
    /\ UNCHANGED besidesSeg

NextSegment == BuildSegments

SpecSegment == InitSegment /\ [][NextSegment]_vars

(***************************************************************************)
(* cli.ts: the loop over the requested contracts, lines 61-98              *)
(***************************************************************************)
ContractNames == {"A", "B"}

\* the artifacts parseArtifact can return to the loop: with or without
\* bytecode, with or without link references
CliArtifacts ==
    {[bytecode |-> b, linkReferences |-> lr] :
        b \in {<<>>, <<48, 49, 48, 49>>},
        lr \in {<<>>, <<[file |-> "a.sol",
                         libs |-> <<[lib |-> NameL,
                                     refs |-> <<[start |-> 0, length |-> 1]>>]>>]>>}}

\* what the body of the loop meets for one contract name: which call throws,
\* and the artifact parsed.  A call that is not reached is recorded as "ok",
\* resolveLibraries is reached only with link references.
CliWorlds ==
    {w \in [findArtifact : {"ok", "throws"}, parseArtifact : {"ok", "throws"},
            artifact : CliArtifacts, resolveLibraries : {"ok", "throws"},
            generateDeployer : {"ok", "throws"}, writeFileSync : {"ok", "throws"}] :
        LET thrown == {f \in {"findArtifact", "parseArtifact", "resolveLibraries",
                              "generateDeployer", "writeFileSync"} : w[f] = "throws"}
            readable == w.findArtifact = "ok" /\ w.parseArtifact = "ok"
        IN  /\ Cardinality(thrown) <= 1
            /\ ~readable => w.artifact = [bytecode |-> <<>>, linkReferences |-> <<>>]
            /\ (readable /\ w.artifact.bytecode = <<>>) => thrown = {}
            /\ w.resolveLibraries = "throws" => w.artifact.linkReferences # <<>>}

contractName == positionals[cliIdx]

parsed == world[contractName].artifact

\* variant: the bytecode is not looked at
noBytecodeIgnored(artifact) == FALSE

\* line 68: !parsed.bytecode
noBytecode(artifact) == artifact.bytecode = <<>>

\* line 75: Object.keys(parsed.linkReferences).length > 0
hasLinks == Len(parsed.linkReferences) > 0

\* line 86: join(outputDir, `${contractName}Deployer.sol`)
outPath(name) == <<name, "Deployer.sol">>

InLoop == cliPc = "loop" /\ cliIdx <= Len(positionals)

Called(fns) == calls \o [k \in 1..Len(fns) |-> [iteration |-> cliIdx, fn |-> fns[k]]]

\* variant: the first failure ends the loop
afterFailureStop(idx) == Len(positionals) + 1

\* the loop goes on with the next contract after a failure
afterFailure(idx) == idx + 1

\* lines 90-93: the catch block
Caught(fns) ==
    /\ calls' = Called(fns)
    /\ reported' = Append(reported, contractName)
    /\ hasError' = TRUE
    /\ cliIdx' = afterFailure(cliIdx)
    /\ UNCHANGED <<positionals, world, written, exitCode, cliPc>>
    /\ UNCHANGED besidesCli

\* calls of lines 65-78 once the artifact is parsed and has bytecode
UpToResolve ==
    <<"findArtifact", "parseArtifact">> \o
    (IF hasLinks THEN <<"resolveLibraries">> ELSE <<>>)

\* line 65 throws
ContractFindThrows ==
    /\ InLoop
    /\ world[contractName].findArtifact = "throws"
    /\ Caught(<<"findArtifact">>)

\* line 66 throws
ContractParseThrows ==
    /\ InLoop
    /\ world[contractName].findArtifact = "ok"
    /\ world[contractName].parseArtifact = "throws"
    /\ Caught(<<"findArtifact", "parseArtifact">>)

\* lines 68-72: no bytecode, the error is printed and the loop continues
ContractNoBytecode ==
    /\ InLoop
    /\ world[contractName].findArtifact = "ok"
    /\ world[contractName].parseArtifact = "ok"
    /\ noBytecode(parsed)
    /\ calls' = Called(<<"findArtifact", "parseArtifact">>)
    /\ reported' = Append(reported, contractName)
    /\ hasError' = TRUE
    /\ cliIdx' = cliIdx + 1
    /\ UNCHANGED <<positionals, world, written, exitCode, cliPc>>
    /\ UNCHANGED besidesCli

\* the artifact is found, parsed and has bytecode: line 74 is reached
HasBytecode ==
    /\ InLoop
    /\ world[contractName].findArtifact = "ok"
    /\ world[contractName].parseArtifact = "ok"
    /\ ~noBytecode(parsed)

\* line 78 throws
ContractResolveThrows ==
    /\ HasBytecode
    /\ hasLinks
    /\ world[contractName].resolveLibraries = "throws"
    /\ Caught(UpToResolve)

\* line 83 throws
ContractGenerateThrows ==
    /\ HasBytecode
    /\ hasLinks => world[contractName].resolveLibraries = "ok"
    /\ world[contractName].generateDeployer = "throws"
    /\ Caught(UpToResolve \o <<"generateDeployer">>)

\* lines 85-87 throw
ContractWriteThrows ==
    /\ HasBytecode
    /\ hasLinks => world[contractName].resolveLibraries = "ok"
    /\ world[contractName].generateDeployer = "ok"
    /\ world[contractName].writeFileSync = "throws"
    /\ Caught(UpToResolve \o <<"generateDeployer", "writeFileSync">>)

\* lines 65-89 without a throw: the deployer file is written
ContractGenerated ==
    /\ HasBytecode
    /\ hasLinks => world[contractName].resolveLibraries = "ok"
    /\ world[contractName].generateDeployer = "ok"
    /\ world[contractName].writeFileSync = "ok"
    /\ calls' = Called(UpToResolve \o <<"generateDeployer", "writeFileSync">>)
    /\ written' = written \cup {outPath(contractName)}
    /\ cliIdx' = cliIdx + 1
    /\ UNCHANGED <<positionals, world, hasError, reported, exitCode, cliPc>>
    /\ UNCHANGED besidesCli

\* lines 96-98 and the end of the script
CliExit ==
    /\ cliPc = "loop"
    /\ cliIdx > Len(positionals)
    /\ exitCode' = IF hasError THEN 1 ELSE 0
    /\ cliPc' = "exited"
    /\ UNCHANGED <<positionals, world, cliIdx, hasError, calls, written, reported>>
    /\ UNCHANGED besidesCli

\* the state at line 61: at least one positional (line 30 exits otherwise)
InitCli ==
    /\ positionals \in UNION {[1..n -> ContractNames] : n \in 1..MaxContracts}
    /\ world \in [ContractNames -> CliWorlds]
    /\ cliIdx = 1
    /\ hasError = FALSE
    /\ calls = <<>>
    /\ written = {}
    /\ reported = <<>>
    /\ exitCode = -1
    /\ cliPc = "loop"
    /\ SegIdle
    /\ ResIdle
    /\ GenIdle
    /\ ChainIdle
    /\ ArtIdle
    /\ CallsIdle

NextCli ==
    \/ ContractFindThrows
    \/ ContractParseThrows
    \/ ContractNoBytecode
    \/ ContractResolveThrows
    \/ ContractGenerateThrows
    \/ ContractWriteThrows
    \/ ContractGenerated
    \/ CliExit

SpecCli == InitCli /\ [][NextCli]_vars

(***************************************************************************)
(* codegen.ts: generateDeployer                                            *)
(*                                                                         *)
(* The generated Solidity source is kept as its parts, in the order they   *)
(* are emitted: the parameters of deploy(), the statements of its body,    *)
(* the parameters and the return expression of initcode(), and the         *)
(* private _<name>Initcode functions.  A parameter is                      *)
(* [type, location, name], a statement is [stmt, var, fn, args].           *)
(***************************************************************************)
\* the words the generator writes
StrArg == <<97, 114, 103>>
StrString == <<115, 116, 114, 105, 110, 103>>
StrBytes == <<98, 121, 116, 101, 115>>
StrBytes32 == <<98, 121, 116, 101, 115, 51, 50>>
StrAddress == <<97, 100, 100, 114, 101, 115, 115>>
StrSalt == <<115, 97, 108, 116>>
StrUint == <<117, 105, 110, 116>>
StrX == <<120>>
StrDeployer == <<68, 101, 112, 108, 111, 121, 101, 114>>
StrStruct == <<115, 116, 114, 117, 99, 116>>
StrContract == <<99, 111, 110, 116, 114, 97, 99, 116>>
StrEnum == <<101, 110, 117, 109>>
StrTuple == <<116, 117, 112, 108, 101>>
StrField == <<102, 105, 101, 108, 100>>

\* String.prototype.startsWith
StartsWith(str, prefix) ==
    /\ Len(str) >= Len(prefix)
    /\ SubSeq(str, 1, Len(prefix)) = prefix

\* String.prototype.endsWith
EndsWith(str, suffix) ==
    /\ Len(str) >= Len(suffix)
    /\ SubSeq(str, Len(str) - Len(suffix) + 1, Len(str)) = suffix

IsDigit(c) == c >= 48 /\ c <= 57

\* /\[\d+\]$/.test(str)
EndsWithFixedArray(str) ==
    /\ Len(str) >= 3
    /\ str[Len(str)] = 93
    /\ \E open \in 1..(Len(str) - 2) :
        /\ str[open] = 91
        /\ \A k \in (open + 1)..(Len(str) - 1) : IsDigit(str[k])

\* the characters \s matches
IsSpace(c) == c \in {9, 10, 11, 12, 13, 32}

RECURSIVE DropSpaces(_)
DropSpaces(str) ==
    IF str # <<>> /\ IsSpace(Head(str)) THEN DropSpaces(Tail(str)) ELSE str

\* str.replace(/^struct\s+/, "")
dropStructKeyword(str) ==
    IF /\ StartsWith(str, StrStruct)
       /\ Len(str) > Len(StrStruct)
       /\ IsSpace(str[Len(StrStruct) + 1])
    THEN DropSpaces(SubSeq(str, Len(StrStruct) + 1, Len(str)))
    ELSE str

\* where the last "[digits]" group of str opens, 0 when str does not end in one
lastGroupOpen(str) ==
    IF /\ Len(str) >= 2
       /\ str[Len(str)] = 93
       /\ \E open \in 1..(Len(str) - 1) :
              /\ str[open] = 91
              /\ \A k \in (open + 1)..(Len(str) - 1) : IsDigit(str[k])
    THEN CHOOSE open \in 1..(Len(str) - 1) :
              /\ str[open] = 91
              /\ \A k \in (open + 1)..(Len(str) - 1) : IsDigit(str[k])
    ELSE 0

\* str.replace(/(\[\d*\])+$/, "")
RECURSIVE stripArraySuffixes(_)
stripArraySuffixes(str) ==
    IF lastGroupOpen(str) = 0 THEN str
    ELSE stripArraySuffixes(SubSeq(str, 1, lastGroupOpen(str) - 1))

\* str.lastIndexOf("."), counted from 1, 0 when there is none
lastDotOf(str) ==
    IF \E k \in 1..Len(str) : str[k] = 46
    THEN CHOOSE k \in 1..Len(str) :
             /\ str[k] = 46
             /\ \A m \in (k + 1)..Len(str) : str[m] # 46
    ELSE 0

extractStructName(internalType) ==
    LET name == stripArraySuffixes(dropStructKeyword(internalType))
    IN  IF lastDotOf(name) # 0
        THEN SubSeq(name, lastDotOf(name) + 1, Len(name))
        ELSE name

\* type.replace(/^tuple/, "")
dropTuple(type) ==
    IF StartsWith(type, StrTuple)
    THEN SubSeq(type, Len(StrTuple) + 1, Len(type))
    ELSE type

abiTypeToSolidity(param) ==
    IF param.internalType # Undefined /\ param.internalType # <<>>
    THEN IF StartsWith(param.internalType, StrContract \o <<32>>)
         THEN StrAddress
         ELSE IF StartsWith(param.internalType, StrEnum \o <<32>>)
         THEN param.type
         ELSE IF StartsWith(param.internalType, StrStruct \o <<32>>)
         THEN extractStructName(param.internalType) \o dropTuple(param.type)
         ELSE param.internalType
    ELSE param.type

\* an optional list that is not given (inputs of an ABI entry, components of a
\* parameter, opts.libraries)
Missing == << [missing |-> TRUE] >>

\* every name counts as new
seenHasNever(seen, name) == FALSE

\* seen.has(name): seen is the map in insertion order
seenHas(seen, name) == \E k \in 1..Len(seen) : seen[k].name = name

\* the fields of a struct definition
fieldsOf(components) ==
    [i \in 1..Len(components) |->
        [type |-> abiTypeToSolidity(components[i]),
         name |-> IF components[i].name # <<>> THEN components[i].name
                  ELSE StrField \o NumberToString(i - 1)]]

\* the walk of collectStructDefs.  Its state is the map seen and, beside it,
\* the visits made so far: for each parameter that passed the first test, its
\* derived name, the map as the visit found it and left it, and the number of
\* components walk was called on.
RECURSIVE walk(_, _)
RECURSIVE walkEach(_, _, _)
walkEach(params, k, st) ==
    IF k > Len(params) THEN st
    ELSE walkEach(params, k + 1, walk(params[k], st))

walk(param, st) ==
    LET it == IF param.internalType = Undefined THEN <<>> ELSE param.internalType
    IN  IF ~StartsWith(it, StrStruct \o <<32>>) \/ param.components = Missing
        THEN st
        ELSE LET inner == walkEach(param.components, 1, st)
                 name == extractStructName(it)
                 seenAfter ==
                     IF seenHas(inner.seen, name) THEN inner.seen
                     ELSE Append(inner.seen,
                                 [name |-> name, fields |-> fieldsOf(param.components)])
             IN  [seen |-> seenAfter,
                  visits |-> Append(inner.visits,
                                    [name |-> name,
                                     before |-> st.seen,
                                     after |-> seenAfter,
                                     walked |-> Len(param.components)])]

collectStructDefs(params) ==
    walkEach(params, 1, [seen |-> <<>>, visits |-> <<>>]).seen

\* structDefs.map((s) => s.name) as a set
structNamesOf(structDefs) == {structDefs[k].name : k \in 1..Len(structDefs)}

\* no type counts as a struct
isStructTypeNever(solType, structNames) == FALSE

isStructType(solType, structNames) == stripArraySuffixes(solType) \in structNames

needsMemoryLocation(solType) ==
    \/ solType = StrString
    \/ solType = StrBytes
    \/ EndsWith(solType, <<91, 93>>)
    \/ EndsWithFixedArray(solType)

\* param.name || `arg${index}`, index counted from 0
paramNameOrArg(param, index) ==
    IF param.name # <<>> THEN param.name ELSE StrArg \o NumberToString(index)

formatParamWithStructs(param, index, structNames) ==
    [type |-> abiTypeToSolidity(param),
     location |-> IF \/ needsMemoryLocation(abiTypeToSolidity(param))
                     \/ isStructType(abiTypeToSolidity(param), structNames)
                  THEN "memory" ELSE "",
     name |-> paramNameOrArg(param, index)]

\* the arguments are numbered from 1
encodeArgsFromOne(ctorParams) ==
    [k \in 1..Len(ctorParams) |->
        IF ctorParams[k].name # <<>> THEN ctorParams[k].name
        ELSE StrArg \o NumberToString(k)]

\* ctorParams.map((p, i) => p.name || `arg${i}`)
encodeArgs(ctorParams) ==
    [k \in 1..Len(ctorParams) |->
        IF ctorParams[k].name # <<>> THEN ctorParams[k].name
        ELSE StrArg \o NumberToString(k - 1)]

\* `address ${lp.name}`
AddressParam(lp) == [type |-> StrAddress, location |-> "", name |-> lp.name]

\* the names of a parameter list, as they are joined into a call
NamesOf(lps) == [k \in 1..Len(lps) |-> lps[k].name]

\* the body is a concatenation even without a placeholder
renderInitcodeBodyPacked(code, segs, withLinks) ==
    [ret |-> "abi.encodePacked", hex |-> <<>>, parts |-> segs]

renderInitcodeBody(code, segs, withLinks) ==
    IF ~withLinks
    THEN [ret |-> "hex", hex |-> code, parts |-> <<>>]
    ELSE [ret |-> "abi.encodePacked", hex |-> <<>>, parts |-> segs]

\* one deployLibrary statement of the deploy body
DeployLibraryLine(rlib) ==
    [stmt |-> "deployLibrary",
     var |-> rlib.paramName,
     fn |-> rlib.paramName,
     args |-> NamesOf(buildBytecodeSegments(rlib.artifact.bytecode,
                                            rlib.artifact.linkReferences).libParams)]

\* the argument step is written whatever the constructor declares
ctorLinesAlways(ctorParams, initcodeCallArgs) ==
    << [stmt |-> "abi.encode", var |-> <<>>, fn |-> <<>>,
        args |-> encodeArgs(ctorParams)],
       [stmt |-> "initcode+args", var |-> <<>>, fn |-> <<>>,
        args |-> initcodeCallArgs] >>

ctorLines(ctorParams, initcodeCallArgs) ==
    IF Len(ctorParams) > 0
    THEN << [stmt |-> "abi.encode", var |-> <<>>, fn |-> <<>>,
             args |-> encodeArgs(ctorParams)],
            [stmt |-> "initcode+args", var |-> <<>>, fn |-> <<>>,
             args |-> initcodeCallArgs] >>
    ELSE << [stmt |-> "initcode", var |-> <<>>, fn |-> <<>>,
             args |-> initcodeCallArgs] >>

renderDeployBody(inlineLibs, resolvedLibs, ctorParams, initcodeCallArgs) ==
    (IF inlineLibs
     THEN [k \in 1..Len(resolvedLibs) |-> DeployLibraryLine(resolvedLibs[k])]
     ELSE <<>>)
    \o ctorLines(ctorParams, initcodeCallArgs)
    \o << [stmt |-> "deploy", var |-> <<>>, fn |-> <<>>, args |-> <<>>] >>

\* what abi.find gives when no entry matches
NoEntry == [type |-> "undefined"]

\* abi.find((e) => e.type === "constructor")
RECURSIVE abiFind(_, _)
abiFind(abi, k) ==
    IF k > Len(abi) THEN NoEntry
    ELSE IF abi[k].type = "constructor" THEN abi[k]
    ELSE abiFind(abi, k + 1)

\* ctorEntry?.inputs ?? []
ctorParamsOf(abi) ==
    IF abiFind(abi, 1) = NoEntry THEN <<>>
    ELSE IF abiFind(abi, 1).inputs = Missing THEN <<>>
    ELSE abiFind(abi, 1).inputs

\* ctorEntry?.stateMutability === "payable"
isPayableOf(abi) ==
    /\ abiFind(abi, 1) # NoEntry
    /\ abiFind(abi, 1).stateMutability = "payable"

\* opts.libraries ?? []
resolvedLibsOf(opts) ==
    IF opts.libraries = Missing THEN <<>> ELSE opts.libraries

\* libraries are never inlined
inlineLibsNever(withLinks, resolvedLibs) == FALSE

inlineLibsOf(withLinks, resolvedLibs) == withLinks /\ Len(resolvedLibs) > 0

\* the private initcode function of one resolved library
LibInitcodeFn(rlib) ==
    LET built == buildBytecodeSegments(rlib.artifact.bytecode,
                                       rlib.artifact.linkReferences)
        libHasLinks == Len(built.libParams) > 0
    IN  [name |-> rlib.paramName,
         params |-> IF libHasLinks
                    THEN [k \in 1..Len(built.libParams) |->
                             AddressParam(built.libParams[k])]
                    ELSE <<>>,
         body |-> renderInitcodeBody(rlib.artifact.bytecode, built.segments,
                                     libHasLinks)]

\* the address parameters of deploy() are left out
legacyParamsNone(withLinks, inlineLibs, mainLibParams) == <<>>

\* the address parameters deploy() takes when nothing is inlined
legacyParams(withLinks, inlineLibs, mainLibParams) ==
    IF withLinks /\ ~inlineLibs
    THEN [k \in 1..Len(mainLibParams) |-> AddressParam(mainLibParams[k])]
    ELSE <<>>

initcodeParamsOf(withLinks, mainLibParams) ==
    IF withLinks
    THEN [k \in 1..Len(mainLibParams) |-> AddressParam(mainLibParams[k])]
    ELSE <<>>

generateDeployer(artifact, opts) ==
    LET resolvedLibs == resolvedLibsOf(opts)
        ctorParams == ctorParamsOf(artifact.abi)
        structDefs == collectStructDefs(ctorParams)
        structNames == structNamesOf(structDefs)
        built == buildBytecodeSegments(artifact.bytecode, artifact.linkReferences)
        mainLibParams == built.libParams
        withLinks == Len(mainLibParams) > 0
        inlineLibs == inlineLibsOf(withLinks, resolvedLibs)
        initcodeCallArgs == IF withLinks THEN NamesOf(mainLibParams) ELSE <<>>
    IN  [libName |-> artifact.contractName \o StrDeployer,
         payable |-> isPayableOf(artifact.abi),
         structDefs |-> structDefs,
         deployParams |->
             [k \in 1..Len(ctorParams) |->
                 formatParamWithStructs(ctorParams[k], k - 1, structNames)]
             \o legacyParams(withLinks, inlineLibs, mainLibParams)
             \o << [type |-> StrBytes32, location |-> "", name |-> StrSalt] >>,
         deployBody |-> renderDeployBody(inlineLibs, resolvedLibs, ctorParams,
                                         initcodeCallArgs),
         initcodeParams |-> initcodeParamsOf(withLinks, mainLibParams),
         initcodeBody |-> renderInitcodeBody(artifact.bytecode, built.segments,
                                             withLinks),
         libInitcodeFns |->
             IF inlineLibs
             THEN [k \in 1..Len(resolvedLibs) |-> LibInitcodeFn(resolvedLibs[k])]
             ELSE <<>>]

(***************************************************************************)
(* Specification of the generator: an artifact and options are given,      *)
(* then generateDeployer is called                                         *)
(***************************************************************************)
\* constructor parameters: named, unnamed, by value, by reference
AbiParam(name, type, internalType, components) ==
    [name |-> name, type |-> type, internalType |-> internalType,
     components |-> components]

\* a parameter as older compilers write it, without internalType
PlainParam(name, type) == AbiParam(name, type, Undefined, Missing)

GenParams ==
    { PlainParam(StrX, StrUint), PlainParam(<<>>, StrBytes) }

GenCtorInputs ==
    { Missing, <<>> }
    \cup { <<p>> : p \in GenParams }
    \cup { << PlainParam(<<>>, StrUint), PlainParam(<<>>, StrString) >> }

\* ABIs: no entry, no constructor entry, a constructor with and without inputs
GenAbis ==
    { <<>>,
      << [type |-> "function", inputs |-> << PlainParam(StrX, StrUint) >>,
          stateMutability |-> "view"] >> }
    \cup { << [type |-> "constructor", inputs |-> inp,
               stateMutability |-> "nonpayable"] >> : inp \in GenCtorInputs }
    \cup { << [type |-> "function", inputs |-> <<>>, stateMutability |-> "view"],
              [type |-> "constructor",
               inputs |-> << PlainParam(StrX, StrUint) >>,
               stateMutability |-> "payable"] >> }

\* the bytecode of the generated-for contract: n bytes "01"
GenBytecode(n) == ConcatAll([k \in 1..n |-> <<48, 49>>])

GenParsedArtifacts ==
    UNION { { [contractName |-> <<67>>, abi |-> abi,
               bytecode |-> GenBytecode(n), linkReferences |-> lr] :
                 abi \in GenAbis, lr \in LinkRefsFor(n) } : n \in 0..MaxGenBytes }

\* resolved libraries as resolveLibraries returns them
GenResolved ==
    { [paramName |-> makeParamName(NameL), file |-> "a.sol", lib |-> NameL,
       artifact |-> ArtifactWith(<<>>), deps |-> <<>>],
      [paramName |-> makeParamName(NameL2), file |-> "a.sol", lib |-> NameL2,
       artifact |-> ArtifactWith(NestFlat(<< [file |-> "a.sol", lib |-> NameL,
                                              ref |-> [start |-> 0, length |-> 1]] >>)),
       deps |-> << makeParamName(NameL) >>] }

RECURSIVE SeqsUpTo(_, _)
SeqsUpTo(S, n) ==
    IF n = 0 THEN { <<>> }
    ELSE SeqsUpTo(S, n - 1)
         \cup { Append(q, x) : q \in { r \in SeqsUpTo(S, n - 1) : Len(r) = n - 1 },
                               x \in S }

GenOptions ==
    { [libraries |-> Missing] }
    \cup { [libraries |-> l] : l \in SeqsUpTo(GenResolved, MaxGenLibs) }

\* type names as the compiler writes them: "A.S", "B.S", "C.S", "T", "[]", "[2]"
StrAS == <<65, 46, 83>>
StrBS == <<66, 46, 83>>
StrCS == <<67, 46, 83>>
StrT == <<84>>
StrDyn == <<91, 93>>
StrTwo == <<91, 50, 93>>

\* a struct-typed parameter: internalType "struct <typeName><suffix>", type
\* "tuple<suffix>"
StructParam(name, typeName, suffix, components) ==
    AbiParam(name, StrTuple \o suffix, StrStruct \o <<32>> \o typeName \o suffix,
             components)

\* parameters that are no structs: a value, a string, arrays, a contract, an enum
GenLeaves ==
    { AbiParam(StrX, StrUint, StrUint, Missing),
      AbiParam(<<>>, StrString, StrString, Missing),
      AbiParam(<<>>, StrUint \o StrDyn, StrUint \o StrDyn, Missing),
      AbiParam(StrX, StrUint \o StrTwo, StrUint \o StrTwo, Missing),
      AbiParam(<<>>, StrAddress, StrContract \o <<32, 73>>, Missing),
      AbiParam(StrX, StrUint \o <<56>>, StrEnum \o <<32, 69>>, Missing) }

GenFieldLeaves ==
    { AbiParam(StrX, StrUint, StrUint, Missing),
      AbiParam(<<>>, StrString, StrString, Missing) }

\* structs of plain fields
GenInnerStructs ==
    { StructParam(<<116>>, StrT, <<>>, <<f>>) : f \in GenFieldLeaves }
    \cup { StructParam(<<116>>, StrT, StrTwo,
                       << AbiParam(StrX, StrUint, StrUint, Missing) >>),
           StructParam(<<>>, StrCS, <<>>,
                       << AbiParam(StrX, StrUint, StrUint, Missing) >>) }

\* structs of one field, plain or a struct, and a struct of two plain fields,
\* under two type names of the same last part
GenOuterStructs ==
    { StructParam(<<>>, typeName, suffix, comps) :
        typeName \in {StrAS, StrBS},
        suffix \in {<<>>, StrDyn},
        comps \in { <<c>> : c \in GenFieldLeaves \cup GenInnerStructs }
                  \cup { << AbiParam(StrX, StrUint, StrUint, Missing),
                            AbiParam(<<>>, StrString, StrString, Missing) >> } }

\* the constructors of the artifacts generated for with struct parameters
GenStructArtifacts ==
    { [contractName |-> <<67>>,
       abi |-> << [type |-> "constructor", inputs |-> inp,
                   stateMutability |-> "nonpayable"] >>,
       bytecode |-> GenBytecode(1), linkReferences |-> <<>>] :
         inp \in SeqsUpTo(GenLeaves \cup GenOuterStructs, MaxCtorParams) }

InitGenerate ==
    /\ \/ /\ genParsed \in GenParsedArtifacts
          /\ genOpts \in GenOptions
       \/ /\ genParsed \in GenStructArtifacts
          /\ genOpts = [libraries |-> Missing]
    /\ genOut = <<>>
    /\ genPc = "input"
    /\ SegIdle
    /\ ResIdle
    /\ CliIdle
    /\ ChainIdle
    /\ ArtIdle
    /\ CallsIdle

GenerateDeployer ==
    /\ genPc = "input"
    /\ genOut' = generateDeployer(genParsed, genOpts)
    /\ genPc' = "generated"
    /\ UNCHANGED <<genParsed, genOpts>>
    /\ UNCHANGED besidesGen

NextGenerate == GenerateDeployer

SpecGenerate == InitGenerate /\ [][NextGenerate]_vars

(***************************************************************************)
(* Specification of resolution followed by generation, as the command line *)
(* runs them for one contract: cli.ts lines 74-83                          *)
(***************************************************************************)
\* the artifact resolved for, and the libraries resolveLibraries returned for
\* it, are given to generateDeployer
GenerateResolved ==
    /\ resPc = "returned"
    /\ genPc = "idle"
    /\ genParsed' = [contractName |-> <<67>>, abi |-> <<>>,
                     bytecode |-> ArtifactWith(linkRefs).bytecode,
                     linkReferences |-> linkRefs]
    /\ genOpts' = [libraries |-> IF Len(linkRefs) > 0 THEN libs ELSE Missing]
    /\ genOut' = generateDeployer(genParsed', genOpts')
    /\ genPc' = "generated"
    /\ UNCHANGED <<resVars, segVars, cliVars, chainVars, artVars, callVars>>

NextWire ==
    \/ ResolveCached
    \/ ResolveCircular
    \/ ResolveNoArtifact
    \/ ResolveEnter
    \/ ResolveFinish
    \/ ResolveReturn
    \/ GenerateResolved

SpecWire == InitCalls /\ [][NextWire]_vars

(***************************************************************************)
(* deploy-helper.ts: DeployHelper, run on a chain                          *)
(*                                                                         *)
(* DeployHelper is a library of internal functions: address(this) is the   *)
(* contract that calls it.  The address of a CREATE2 deployment is the     *)
(* hash of (0xff, deployer, salt, hash of the initcode), kept here as the  *)
(* tuple of what is hashed, so that distinct inputs give distinct          *)
(* addresses.  A call that reverts leaves the chain as it was.             *)
(***************************************************************************)
Deployers == {"D1", "D2"}
Salts == {0, 1}

\* initcodes: two that return runtime code, one that returns none ("00",
\* STOP), one that reverts ("fd", REVERT)
Initcodes == {<<54, 48, 48, 49>>, <<54, 48, 102, 101>>, <<48, 48>>, <<102, 100>>}

\* what running an initcode gives: it fails, or it returns the runtime code
RunInitcode(initcode) ==
    IF SubSeq(initcode, 1, 2) = <<102, 100>> THEN [ok |-> FALSE, runtime |-> <<>>]
    ELSE IF SubSeq(initcode, 1, 2) = <<48, 48>> THEN [ok |-> TRUE, runtime |-> <<>>]
    ELSE [ok |-> TRUE, runtime |-> SubSeq(initcode, 3, Len(initcode))]

ZeroAddress == <<"0x0", 0, <<>>>>

\* keccak256(0xff ++ deployer ++ salt ++ keccak256(initcode)), low 160 bits
Create2Address(deployer, salt, initcode) == <<deployer, salt, initcode>>

Addresses ==
    {Create2Address(d, s, ic) : d \in Deployers, s \in Salts, ic \in Initcodes}

\* the CREATE2 instruction: the address created, or zero, and the accounts after
create2(accs, deployer, initcode, salt) ==
    LET addr == Create2Address(deployer, salt, initcode)
        ran == RunInitcode(initcode)
    IN  IF accs[addr].nonce # 0 \/ accs[addr].code # <<>> \/ ~ran.ok
        THEN [address |-> ZeroAddress, accounts |-> accs]
        ELSE [address |-> addr,
              accounts |-> [accs EXCEPT ![addr] = [code |-> ran.runtime, nonce |-> 1]]]

\* deploy(initcode, salt): the address, or a revert that undoes the call
deploy(accs, deployer, initcode, salt) ==
    LET made == create2(accs, deployer, initcode, salt)
    IN  IF made.address = ZeroAddress
        THEN [reverted |-> TRUE, address |-> ZeroAddress, accounts |-> accs]
        ELSE [reverted |-> FALSE, address |-> made.address, accounts |-> made.accounts]

\* the code at the address is not looked at
codeLengthIgnored(accs, addr) == 0

\* contractAddress.code.length, in hex digits
codeLength(accs, addr) == Len(accs[addr].code)

\* deployLibrary(initcode): [reverted, address, accounts, created]
deployLibrary(accs, deployer, initcode) ==
    LET salt == 0
        contractAddress == Create2Address(deployer, salt, initcode)
    IN  IF codeLength(accs, contractAddress) > 0
        THEN [reverted |-> FALSE, address |-> contractAddress, accounts |-> accs,
              created |-> FALSE]
        ELSE LET made == deploy(accs, deployer, initcode, salt)
             IN  [reverted |-> made.reverted, address |-> made.address,
                  accounts |-> made.accounts, created |-> TRUE]

InitChain ==
    /\ accounts = [a \in Addresses |-> [code |-> <<>>, nonce |-> 0]]
    /\ libCreates = [a \in Addresses |-> 0]
    /\ results = {}
    /\ lastCall = [fn |-> "none"]
    /\ nCalls = 0
    /\ SegIdle
    /\ ResIdle
    /\ CliIdle
    /\ GenIdle
    /\ ArtIdle
    /\ CallsIdle

\* a contract calls DeployHelper.deployLibrary(initcode)
DeployLibraryCall ==
    /\ nCalls < MaxCalls
    /\ \E d \in Deployers, ic \in Initcodes :
        LET out == deployLibrary(accounts, d, ic)
            addr == Create2Address(d, 0, ic)
        IN  /\ accounts' = out.accounts
            /\ libCreates' = IF out.created
                             THEN [libCreates EXCEPT ![addr] = @ + 1]
                             ELSE libCreates
            /\ results' = IF out.reverted THEN results
                          ELSE results \cup {[deployer |-> d, initcode |-> ic,
                                              address |-> out.address]}
            /\ lastCall' = [fn |-> "deployLibrary", deployer |-> d, initcode |-> ic,
                            salt |-> 0,
                            codeBefore |-> accounts[addr].code,
                            reverted |-> out.reverted, address |-> out.address,
                            created |-> out.created]
    /\ nCalls' = nCalls + 1
    /\ UNCHANGED besidesChain

\* a contract calls DeployHelper.deploy(initcode, salt)
DeployCall ==
    /\ nCalls < MaxCalls
    /\ \E d \in Deployers, ic \in Initcodes, salt \in Salts :
        LET out == deploy(accounts, d, ic, salt)
        IN  /\ accounts' = out.accounts
            /\ lastCall' = [fn |-> "deploy", deployer |-> d, initcode |-> ic,
                            salt |-> salt,
                            codeBefore |-> accounts[Create2Address(d, salt, ic)].code,
                            reverted |-> out.reverted, address |-> out.address,
                            created |-> TRUE]
    /\ nCalls' = nCalls + 1
    /\ UNCHANGED <<libCreates, results>>
    /\ UNCHANGED besidesChain

\* a contract calls DeployHelper.deploy(initcode)
DeployZeroSaltCall ==
    /\ nCalls < MaxCalls
    /\ \E d \in Deployers, ic \in Initcodes :
        LET out == deploy(accounts, d, ic, 0)
        IN  /\ accounts' = out.accounts
            /\ lastCall' = [fn |-> "deploy1", deployer |-> d, initcode |-> ic,
                            salt |-> 0,
                            codeBefore |-> accounts[Create2Address(d, 0, ic)].code,
                            reverted |-> out.reverted, address |-> out.address,
                            created |-> TRUE]
    /\ nCalls' = nCalls + 1
    /\ UNCHANGED <<libCreates, results>>
    /\ UNCHANGED besidesChain

NextChain ==
    \/ DeployLibraryCall
    \/ DeployCall
    \/ DeployZeroSaltCall

SpecChain == InitChain /\ [][NextChain]_vars

(***************************************************************************)
(* artifact.ts: findArtifact and parseArtifact                             *)
(*                                                                         *)
(* outDir is the sequence of its entries as readdirSync lists them; an     *)
(* entry is a plain file, or a directory that holds <contractName>.json    *)
(* (its JSON document) or does not.  The path of a candidate is the        *)
(* position of its directory.  A JSON document is                          *)
(* [abi, bytecode, version] with version standing for                      *)
(* metadata.compiler.version; the settings fields that parseArtifact       *)
(* copies unchanged are left out.                                          *)
(***************************************************************************)
\* a file that does not exist, an object field that is not there
NoFile == [missing |-> TRUE]

Str0x == <<48, 120>>

\* hex digits a file may hold: '1', 'a', 'A', 'F'
HexDigits == {49, 97, 65, 70}

HexBodies == UNION {[1..(2 * n) -> HexDigits] : n \in 0..MaxRawBytes}

HexStrings == HexBodies \cup {Str0x \o h : h \in HexBodies}

VersionStrings == {<<48, 46, 56, 46, 49>>, <<48, 46, 55>>}    \* "0.8.1", "0.7"

\* the documents a file handed to parseArtifact may hold
RawDocs ==
    { [abi |-> abi, bytecode |-> bc, version |-> v] :
        abi \in {Missing, <<>>},
        bc \in {NoFile}
               \cup { [object |-> o, linkReferences |-> l] :
                        o \in {Undefined} \cup HexStrings,
                        l \in {Missing, <<>>,
                               NestFlat(<< [file |-> "a.sol", lib |-> NameL,
                                            ref |-> [start |-> 0, length |-> 1]] >>)} },
        v \in {Undefined, <<48, 46, 56, 46, 49>>} }

\* the documents of the candidates in outDir: they differ by compiler version
DirDocs ==
    { [abi |-> <<>>,
       bytecode |-> [object |-> Str0x \o <<49, 97>>, linkReferences |-> <<>>],
       version |-> v] : v \in {Undefined} \cup VersionStrings }

DirEntries ==
    { [isDirectory |-> FALSE, json |-> NoFile],
      [isDirectory |-> TRUE, json |-> NoFile] }
    \cup { [isDirectory |-> TRUE, json |-> doc] : doc \in DirDocs }

Dirs == UNION {[1..n -> DirEntries] : n \in 0..MaxEntries}

\* the candidates: directories that hold the file, in listing order
RECURSIVE candidatesOf(_, _)
candidatesOf(dir, k) ==
    IF k > Len(dir) THEN <<>>
    ELSE IF ~dir[k].isDirectory THEN candidatesOf(dir, k + 1)
    ELSE IF dir[k].json = NoFile THEN candidatesOf(dir, k + 1)
    ELSE <<k>> \o candidatesOf(dir, k + 1)

Thrown(kind) == [threw |-> kind, path |-> 0]

Path(k) == [threw |-> "none", path |-> k]

\* findArtifact(contractName, outDir), lines 5-29
findArtifact(dir) ==
    LET candidates == candidatesOf(dir, 1)
    IN  IF Len(candidates) = 0 THEN Thrown("No artifact found")
        ELSE Path(candidates[1])

\* the first candidate compiled with the version asked for
RECURSIVE firstWithVersion(_, _, _, _)
firstWithVersion(dir, candidates, solcVersion, k) ==
    IF k > Len(candidates) THEN 0
    ELSE IF /\ dir[candidates[k]].json.version # Undefined
            /\ StartsWith(dir[candidates[k]].json.version, solcVersion)
         THEN candidates[k]
    ELSE firstWithVersion(dir, candidates, solcVersion, k + 1)

\* findArtifact(contractName, outDir, options), lines 136-182
findArtifactWithOptions(dir, solcVersion) ==
    LET candidates == candidatesOf(dir, 1)
    IN  IF Len(candidates) = 0 THEN Thrown("No artifact found")
        ELSE IF solcVersion # Undefined /\ solcVersion # <<>> /\ Len(candidates) > 1
        THEN IF firstWithVersion(dir, candidates, solcVersion, 1) # 0
             THEN Path(firstWithVersion(dir, candidates, solcVersion, 1))
             ELSE Thrown("No artifact compiled with solc")
        ELSE IF Len(candidates) > 1 THEN Thrown("Multiple artifacts found")
        ELSE Path(candidates[1])

\* raw.bytecode?.object ?? ""
bytecodeObjectOf(raw) ==
    IF raw.bytecode = NoFile THEN <<>>
    ELSE IF raw.bytecode.object = Undefined THEN <<>>
    ELSE raw.bytecode.object

\* if (bytecodeHex.startsWith("0x")) bytecodeHex = bytecodeHex.slice(2)
stripPrefix(bytecodeHex) ==
    IF StartsWith(bytecodeHex, Str0x)
    THEN SubSeq(bytecodeHex, 3, Len(bytecodeHex))
    ELSE bytecodeHex

parseArtifact(raw, name) ==
    [contractName |-> name,
     abi |-> IF raw.abi = Missing THEN <<>> ELSE raw.abi,
     bytecode |-> stripPrefix(bytecodeObjectOf(raw)),
     linkReferences |->
         IF raw.bytecode = NoFile THEN <<>>
         ELSE IF raw.bytecode.linkReferences = Missing THEN <<>>
         ELSE raw.bytecode.linkReferences,
     solcVersion |-> raw.version]

NotFoundYet == [threw |-> "not called", path |-> 0]

NotParsedYet == [contractName |-> <<>>]

\* either outDir is given and looked up, or a file is given and parsed
InitArtifact ==
    /\ \/ /\ artPc = "lookup"
          /\ artDir \in Dirs
          /\ artRaw = NoFile
       \/ /\ artPc = "read"
          /\ artDir = <<>>
          /\ artRaw \in RawDocs
    /\ artFound = NotFoundYet
    /\ artParsed = NotParsedYet
    /\ SegIdle
    /\ ResIdle
    /\ CliIdle
    /\ GenIdle
    /\ ChainIdle
    /\ CallsIdle

FindArtifact ==
    /\ artPc = "lookup"
    /\ artFound' = findArtifact(artDir)
    /\ artPc' = "found"
    /\ UNCHANGED <<artDir, artRaw, artParsed>>
    /\ UNCHANGED besidesArt

FindArtifactWithOptions ==
    /\ artPc = "lookup"
    /\ \E solcVersion \in {Undefined, <<>>, <<48, 46, 56>>} :
          artFound' = findArtifactWithOptions(artDir, solcVersion)
    /\ artPc' = "found"
    /\ UNCHANGED <<artDir, artRaw, artParsed>>
    /\ UNCHANGED besidesArt

\* parseArtifact on a file given by its content
ParseArtifact ==
    /\ artPc = "read"
    /\ artParsed' = parseArtifact(artRaw, <<67>>)
    /\ artPc' = "parsed"
    /\ UNCHANGED <<artDir, artRaw, artFound>>
    /\ UNCHANGED besidesArt

\* parseArtifact on the path findArtifact returned
ParseFound ==
    /\ artPc = "found"
    /\ artFound.threw = "none"
    /\ artRaw' = artDir[artFound.path].json
    /\ artParsed' = parseArtifact(artDir[artFound.path].json, <<67>>)
    /\ artPc' = "parsed"
    /\ UNCHANGED <<artDir, artFound>>
    /\ UNCHANGED besidesArt

NextArtifact ==
    \/ FindArtifact
    \/ FindArtifactWithOptions
    \/ ParseArtifact
    \/ ParseFound

SpecArtifact == InitArtifact /\ [][NextArtifact]_vars

(***************************************************************************)
(* Properties of buildBytecodeSegments                                     *)
(***************************************************************************)
RECURSIVE SumCodes(_)
SumCodes(name) == IF name = <<>> THEN 0 ELSE Head(name) + SumCodes(Tail(name))

\* the hex character an address substituted for placeholder `name` is made of
\* (no bytecode character is that large)
AddressChar(name) == 1000 + SumCodes(name)

\* the slot of the artifact that has exactly k - 1 slots before it
SlotNumber(k) ==
    CHOOSE p \in SlotSet(linkReferences) :
        Cardinality({q \in SlotSet(linkReferences) : q.start < p.start}) = k - 1

\* concatenation of the segments, the k-th placeholder segment replaced by
\* an address value of the byte length of the k-th slot
RECURSIVE Substituted(_, _)
Substituted(segs, k) ==
    IF segs = <<>> THEN <<>>
    ELSE IF Head(segs).type = "hex"
    THEN Head(segs).value \o Substituted(Tail(segs), k)
    ELSE (IF k <= Cardinality(SlotSet(linkReferences))
          THEN [i \in 1..(2 * SlotNumber(k).length) |-> AddressChar(Head(segs).value)]
          ELSE <<>>)
         \o Substituted(Tail(segs), k + 1)

CoveringSlots(i) ==
    {p \in SlotSet(linkReferences) : 2 * p.start < i /\ i <= 2 * (p.start + p.length)}

\* C1: for well-formed link slots, the segments concatenated in order, each
\* placeholder replaced by a value of its slot's byte length, give a string of
\* the length of the bytecode that equals the bytecode outside the slot ranges
\* and the substituted value inside each slot range.
C1_RoundTrip ==
    (segPc = "built" /\ WellFormedSlots(linkReferences, Len(bytecode) \div 2)) =>
        LET out == Substituted(segments, 1)
        IN  /\ Len(out) = Len(bytecode)
            /\ \A i \in 1..Len(out) :
                 IF CoveringSlots(i) = {}
                 THEN i <= Len(bytecode) /\ out[i] = bytecode[i]
                 ELSE \A p \in CoveringSlots(i) :
                        out[i] = AddressChar(makeParamName(p.lib))

\* a bytecode with two slots of different libraries and literal bytes around them
C1_Witness ==
    /\ segPc = "built"
    /\ Len(bytecode) = 6
    /\ Cardinality(SlotSet(linkReferences)) = 2
    /\ Cardinality({p.lib : p \in SlotSet(linkReferences)}) = 2
    /\ \E i \in 1..Len(segments) : segments[i].type = "hex"
    /\ \E i \in 1..Len(segments) : segments[i].type = "lib"

IsLibSegment(seg) == seg.type = "lib"

\* the placeholder segments, in order
LibSegments == SelectSeq(segments, IsLibSegment)

\* the positions of the placeholder segments that name an identifier first
FirstOccurrences ==
    {k \in 1..Len(LibSegments) :
        \A j \in 1..(k - 1) : LibSegments[j].value # LibSegments[k].value}

\* C21: the parameter list holds each placeholder identifier at most once, in
\* the order in which the identifiers first occur by ascending byte offset,
\* and the segments hold one placeholder segment per link slot, in ascending
\* byte-offset order.
C21_ParamsDeduplicated ==
    segPc = "built" =>
        /\ \A i, j \in 1..Len(libParams) :
              libParams[i].name = libParams[j].name => i = j
        /\ Len(libParams) = Cardinality(FirstOccurrences)
        /\ \A i \in 1..Len(libParams) :
              \E k \in FirstOccurrences :
                 /\ LibSegments[k].value = libParams[i].name
                 /\ Cardinality({m \in FirstOccurrences : m < k}) = i - 1
        /\ Len(LibSegments) = Cardinality(SlotSet(linkReferences))
        /\ \A k \in 1..Len(LibSegments) :
              LibSegments[k].value = makeParamName(SlotNumber(k).lib)

(***************************************************************************)
(* Properties of resolveLibraries                                          *)
(***************************************************************************)
\* first character lowercased, rest unchanged
Decapitalized(name) ==
    IF name = <<>> THEN <<>>
    ELSE [i \in 1..Len(name) |->
            IF i = 1 /\ name[i] \in 65..90 THEN name[i] + 32 ELSE name[i]]

\* the (file, library) keys of a LinkReferences value in encounter order
KeySeq(lr) ==
    ConcatAll([i \in 1..Len(lr) |->
        [j \in 1..Len(lr[i].libs) |-> <<lr[i].file, lr[i].libs[j].lib>>]])

\* the libraries the artifact of a key links to
Edges(key) ==
    IF outDir[key[2]].found = "yes"
    THEN Range(KeySeq(outDir[key[2]].artifact.linkReferences))
    ELSE {}

RECURSIVE Closure(_)
Closure(S) ==
    LET more == S \cup UNION {Edges(k) : k \in S}
    IN  IF more = S THEN S ELSE Closure(more)

RootKeys == Range(KeySeq(linkRefs))

ReachableKeys == Closure(RootKeys)

OnCycle(key) == key \in Closure(Edges(key))

GraphCyclic == \E k \in ReachableKeys : OnCycle(k)

NoLookupFailed == \A n \in LibNames : outDir[n] # NoArtifact

ReportsCycle == resPc = "failed" /\ error.kind = "circular"

Terminated == resPc \in {"returned", "failed"}

\* C2: the returned sequence is a topological order: every name in an entry's
\* deps is the paramName of an entry strictly earlier in the sequence.
C2_TopologicalOrder ==
    resPc = "returned" =>
        \A i \in 1..Len(libs) : \A d \in 1..Len(libs[i].deps) :
            \E j \in 1..(i - 1) : libs[j].paramName = libs[i].deps[d]

\* a chain of three libraries has been returned
C2_Witness ==
    /\ resPc = "returned"
    /\ \E i, j \in 1..Len(libs) :
         /\ i # j
         /\ Len(libs[i].deps) >= 1
         /\ Len(libs[j].deps) >= 1
         /\ keyOf(libs[i]) \in Edges(keyOf(libs[j]))

\* C3 as stated: resolveLibraries fails with a circular-dependency error
\* exactly when the graph reachable from the root link slots has a cycle,
\* and the key named in the error lies on a cycle.
C3_CircularExactlyWhenCyclic ==
    Terminated =>
        /\ ReportsCycle <=> GraphCyclic
        /\ ReportsCycle => OnCycle(error.key)

\* C3, amended: no result is returned for a cyclic graph, no cycle is reported
\* for an acyclic graph, the key named in the error lies on a cycle, and when
\* no artifact lookup of the traversal fails the error is raised exactly when
\* the reachable graph has a cycle.
C3_CycleDetection ==
    Terminated =>
        /\ resPc = "returned" => ~GraphCyclic
        /\ ReportsCycle => GraphCyclic
        /\ ReportsCycle => error.key \in ReachableKeys /\ OnCycle(error.key)
        /\ NoLookupFailed => (ReportsCycle <=> GraphCyclic)

\* a cycle through two libraries has been reported
C3_Witness ==
    /\ ReportsCycle
    /\ error.key \notin Edges(error.key)
    /\ Len(stack) >= 2

\* C4: each key is looked up at most once, and the returned sequence has
\* exactly one entry for each key reached.
C4_ResolvedOnce ==
    /\ \A k \in LibKeys : Cardinality({i \in 1..Len(lookups) : lookups[i] = k}) <= 1
    /\ resPc = "returned" =>
         /\ \A k \in ReachableKeys :
              Cardinality({i \in 1..Len(libs) : keyOf(libs[i]) = k}) = 1
         /\ \A k \in ReachableKeys :
              Cardinality({i \in 1..Len(lookups) : lookups[i] = k}) = 1

\* a library linked by two different returned libraries (reached by two
\* paths) has been returned
C4_Witness ==
    /\ resPc = "returned"
    /\ \E i, j \in 1..Len(libs) :
         /\ i # j
         /\ Edges(keyOf(libs[i])) \cap Edges(keyOf(libs[j])) # {}

\* C5: the paramName values of the returned entries are pairwise distinct.
C5_DistinctNames ==
    resPc = "returned" =>
        \A i, j \in 1..Len(libs) : libs[i].paramName = libs[j].paramName => i = j

\* C6: among the entries with the same decapitalized name, the first in
\* resolution order keeps it and the k-th (k >= 2) gets it with k appended;
\* an entry that shares its decapitalized name with no other keeps it.
C6_DisambiguationRule ==
    resPc = "returned" =>
        \A i \in 1..Len(libs) :
            LET base == Decapitalized(libs[i].lib)
                k == Cardinality({j \in 1..i : Decapitalized(libs[j].lib) = base})
            IN  libs[i].paramName = IF k = 1 THEN base ELSE base \o <<48 + k>>

\* three returned entries share a decapitalized name
C6_Witness ==
    /\ resPc = "returned"
    /\ \E i \in 1..Len(libs) :
         libs[i].paramName = Decapitalized(libs[i].lib) \o <<51>>
    /\ \E i \in 1..Len(libs) :
         libs[i].paramName = Decapitalized(libs[i].lib) \o <<50>>

\* C7: for every returned entry E and every key K at position p (encounter
\* order) of E's own link references, E.deps[p] is the final paramName of the
\* returned entry whose key is K, and deps holds nothing else.
C7_DepsNeverStale ==
    resPc = "returned" =>
        \A i \in 1..Len(libs) :
            LET ks == KeySeq(libs[i].artifact.linkReferences)
            IN  /\ Len(libs[i].deps) = Len(ks)
                /\ \A p \in 1..Len(ks) :
                     \E j \in 1..Len(libs) :
                        /\ keyOf(libs[j]) = ks[p]
                        /\ libs[i].deps[p] = libs[j].paramName

\* a returned entry depends on two libraries, one of which was renamed
C7_Witness ==
    /\ resPc = "returned"
    /\ \E i \in 1..Len(libs) :
         /\ Len(libs[i].deps) = 2
         /\ \E p \in 1..2 :
              libs[i].deps[p] #
                Decapitalized(KeySeq(libs[i].artifact.linkReferences)[p][2])

\* C8: when all lookups succeed on an acyclic graph, the keys of the returned
\* entries are exactly the keys reachable from the root link slots.
C8_ExactlyReachable ==
    (resPc = "returned" /\ NoLookupFailed /\ ~GraphCyclic) =>
        {keyOf(libs[i]) : i \in 1..Len(libs)} = ReachableKeys

\* three libraries are returned, one reached only through another library,
\* while a library of the directory is not reachable
C8_Witness ==
    /\ resPc = "returned"
    /\ NoLookupFailed
    /\ Len(libs) = 3
    /\ \E i \in 1..Len(libs) : keyOf(libs[i]) \notin RootKeys
    /\ LibKeys \ ReachableKeys # {}

(***************************************************************************)
(* Properties of the command-line loop                                     *)
(***************************************************************************)
\* the contract fails: one of the calls made for it throws, or it has no bytecode
Fails(name) ==
    LET w == world[name]
    IN  \/ w.findArtifact = "throws"
        \/ w.parseArtifact = "throws"
        \/ w.artifact.bytecode = <<>>
        \/ w.artifact.linkReferences # <<>> /\ w.resolveLibraries = "throws"
        \/ w.generateDeployer = "throws"
        \/ w.writeFileSync = "throws"

Requested == Range(positionals)

\* C9: at exit every requested contract that does not itself fail has its
\* deployer file written, every failing one is reported, and the exit status
\* is non-zero if and only if at least one requested contract failed.
C9_BatchIsolation ==
    cliPc = "exited" =>
        /\ \A c \in Requested : ~Fails(c) => outPath(c) \in written
        /\ \A c \in Requested : Fails(c) => c \in Range(reported)
        /\ exitCode # 0 <=> \E c \in Requested : Fails(c)

\* a contract was generated between two failing ones
C9_Witness ==
    /\ cliPc = "exited"
    /\ Len(positionals) = 3
    /\ Fails(positionals[1])
    /\ ~Fails(positionals[2])
    /\ Fails(positionals[3])
    /\ outPath(positionals[2]) \in written
    /\ exitCode = 1

NoBytecodeAt(i) ==
    /\ world[positionals[i]].findArtifact = "ok"
    /\ world[positionals[i]].parseArtifact = "ok"
    /\ world[positionals[i]].artifact.bytecode = <<>>

\* C10: for a contract whose parsed artifact has no bytecode, the iteration
\* calls neither resolveLibraries nor generateDeployer, writes no file, and
\* records the failure.
C10_NoBytecodeNoGeneration ==
    \A i \in 1..Len(positionals) :
        (i < cliIdx /\ NoBytecodeAt(i)) =>
            /\ \A k \in 1..Len(calls) :
                 calls[k].iteration = i =>
                    calls[k].fn \in {"findArtifact", "parseArtifact"}
            /\ outPath(positionals[i]) \notin written
            /\ positionals[i] \in Range(reported)
            /\ hasError

\* a contract without bytecode was met after a contract was generated
C10_Witness ==
    /\ cliIdx > 2
    /\ Len(positionals) >= 2
    /\ NoBytecodeAt(2)
    /\ outPath(positionals[1]) \in written

\* the keys of a sequence of entries, in order
EntryKeys(es) == [k \in 1..Len(es) |-> keyOf(es[k])]

\* depth-first post-order: the keys are visited in order, a key already done
\* is skipped, a key is done after the keys its artifact links to
RECURSIVE PostOrderFrom(_, _)
PostOrderFrom(keys, done) ==
    IF keys = <<>> THEN done
    ELSE IF Head(keys) \in Range(done) THEN PostOrderFrom(Tail(keys), done)
    ELSE PostOrderFrom(Tail(keys),
            Append(PostOrderFrom(
                       KeySeq(outDir[Head(keys)[2]].artifact.linkReferences), done),
                   Head(keys)))

\* a key leaves the in-progress set: it becomes the last resolved key
FinishStep ==
    \A key \in visiting \ visiting' :
        resolvedHas(resolved', key) =>
            EntryKeys(resolved') = Append(EntryKeys(resolved), key)

\* the call returns: the resolved entries in their order, which is the
\* post-order of the traversal; only names differ
ReturnStep ==
    resPc = "running" /\ resPc' = "returned" =>
        /\ EntryKeys(libs') = EntryKeys(resolved)
        /\ EntryKeys(libs') = PostOrderFrom(KeySeq(linkRefs), <<>>)
        /\ \A k \in 1..Len(libs') :
              /\ libs'[k].artifact = resolved[k].artifact
              /\ Len(libs'[k].deps) = Len(resolved[k].deps)

\* C20: the returned sequence is the order in which keys moved from
\* in-progress to resolved, the post-order of a depth-first traversal that
\* visits sibling keys in file-then-library encounter order; the
\* disambiguation pass changes names only and never reorders, adds or removes
\* entries.
C20_PostOrder == [][FinishStep /\ ReturnStep]_vars

\* the root links LibA only, LibA links LibB: the result is [LibB, LibA]
C20_Witness ==
    /\ resPc = "returned"
    /\ Len(KeySeq(linkRefs)) = 1
    /\ Len(libs) = 2
    /\ keyOf(libs[2]) = KeySeq(linkRefs)[1]
    /\ KeySeq(libs[2].artifact.linkReferences) = <<keyOf(libs[1])>>

\* the keys of the activations of resolve() that are running
StackKeys == {keyOf(stack[i]) : i \in 1..Len(stack)}

\* the activation that threw at findArtifact had added its key already
ThrowingKey ==
    IF resPc = "failed" /\ error.kind = "no artifact" THEN {error.key} ELSE {}

\* unvisited, in progress, resolved: no key is in two states, the keys in
\* progress are the keys of the recursion path, none is left on return
ThreeStates ==
    /\ \A key \in visiting : ~resolvedHas(resolved, key)
    /\ visiting = StackKeys \cup ThrowingKey
    /\ Cardinality(StackKeys) = Len(stack)
    /\ resPc = "returned" => visiting = {}

\* a resolved key stays resolved
ResolvedKept ==
    \A i \in 1..Len(resolved) : resolvedHas(resolved', keyOf(resolved[i]))

\* C26: at every step of resolveLibraries no key is both in progress and
\* resolved, the keys in progress are exactly the keys on the depth-first
\* recursion path, a key never leaves the resolved map, and the in-progress
\* set is empty whenever the call returns normally.
C26_ThreeStateInvariant == ThreeStates /\ [][ThreeStates' /\ ResolvedKept]_vars

\* inside a nested activation, with one key resolved already
C26_Witness ==
    /\ resPc = "running"
    /\ Len(stack) = 2
    /\ Cardinality(visiting) = 2
    /\ Len(resolved) >= 1

(***************************************************************************)
(* Properties of repeated resolution                                       *)
(***************************************************************************)
\* the call that is over and the first call both returned a result
BothReturned == resPc = "returned" /\ firstCall.status = "returned"

HasKey(es, key) == \E i \in 1..Len(es) : keyOf(es[i]) = key

PosOf(es, key) == CHOOSE i \in 1..Len(es) : keyOf(es[i]) = key

NameOf(es, key) == es[PosOf(es, key)].paramName

\* no entry besides the two has a bare name that decapitalizes like theirs
OnlyTheseCollide(es, k1, k2) ==
    \A i \in 1..Len(es) :
        Decapitalized(es[i].lib) = Decapitalized(k1[2]) => keyOf(es[i]) \in {k1, k2}

\* C17: two resolved libraries whose bare names differ only by leading case
\* get distinct names, and the same names in every run in which they are
\* resolved in the same relative order, wherever the non-colliding sibling
\* libraries stand in the link slots and whether they are there or not.
C17_StableNames ==
    BothReturned =>
        \A k1, k2 \in CallKeys :
            (/\ k1 # k2
             /\ Decapitalized(k1[2]) = Decapitalized(k2[2])
             /\ HasKey(libs, k1) /\ HasKey(libs, k2)
             /\ HasKey(firstCall.libs, k1) /\ HasKey(firstCall.libs, k2)
             /\ OnlyTheseCollide(libs, k1, k2)
             /\ OnlyTheseCollide(firstCall.libs, k1, k2)
             /\ PosOf(libs, k1) < PosOf(libs, k2)
             /\ PosOf(firstCall.libs, k1) < PosOf(firstCall.libs, k2))
            => /\ NameOf(libs, k1) # NameOf(libs, k2)
               /\ NameOf(firstCall.libs, k1) # NameOf(firstCall.libs, k2)
               /\ NameOf(libs, k1) = NameOf(firstCall.libs, k1)
               /\ NameOf(libs, k2) = NameOf(firstCall.libs, k2)

\* L and l are resolved in the same order by two calls; L2 is resolved first
\* by one of them and not at all by the other
C17_Witness ==
    /\ BothReturned
    /\ HasKey(libs, <<"a.sol", NameL>>) /\ HasKey(libs, <<"a.sol", Namel>>)
    /\ HasKey(firstCall.libs, <<"a.sol", NameL>>)
    /\ HasKey(firstCall.libs, <<"a.sol", Namel>>)
    /\ PosOf(libs, <<"a.sol", NameL>>) < PosOf(libs, <<"a.sol", Namel>>)
    /\ PosOf(firstCall.libs, <<"a.sol", NameL>>)
          < PosOf(firstCall.libs, <<"a.sol", Namel>>)
    /\ HasKey(libs, <<"a.sol", NameL2>>)
    /\ PosOf(libs, <<"a.sol", NameL2>>) = 1
    /\ ~HasKey(firstCall.libs, <<"a.sol", NameL2>>)
    /\ NameOf(libs, <<"a.sol", Namel>>) = Namel \o <<50>>

\* C18: a call on the same link references and the same directory as the
\* first call ends as the first call did, with an equal sequence (keys,
\* order, names, deps), whatever calls were made in between, calls that
\* failed with a cycle included.
C18_Deterministic ==
    (/\ resPc \in {"returned", "failed"}
     /\ firstCall.status # "none"
     /\ linkRefs = firstCall.linkRefs)
    => /\ resPc = firstCall.status
       /\ libs = firstCall.libs
       /\ error = firstCall.error

\* after a call that failed with a cycle, the link references of the first
\* call are resolved again: the same two or more libraries are returned
C18_Witness ==
    /\ BothReturned
    /\ betweenFailed
    /\ linkRefs = firstCall.linkRefs
    /\ Len(libs) >= 2
    /\ libs = firstCall.libs

(***************************************************************************)
(* Properties of generateDeployer                                          *)
(***************************************************************************)
\* the libraries given in the options
GivenLibraries ==
    IF genOpts.libraries = Missing THEN <<>> ELSE genOpts.libraries

\* the link slots of the artifact given to the generator
GenSlots == SlotSet(genParsed.linkReferences)

\* the inputs of the first constructor entry of the ABI, if it has one
ConstructorInputs ==
    LET ks == {k \in 1..Len(genParsed.abi) : genParsed.abi[k].type = "constructor"}
        first == CHOOSE k \in ks : \A m \in ks : k <= m
    IN  IF ks = {} THEN <<>>
        ELSE IF genParsed.abi[first].inputs = Missing THEN <<>>
        ELSE genParsed.abi[first].inputs

IsDeployLibrary(line) == line.stmt = "deployLibrary"

DeployLibraryStmts == SelectSeq(genOut.deployBody, IsDeployLibrary)

\* one accessor and one deployment statement per given library, in the given
\* order, named by the library's identifier, all before the main deployment
InlinedAsSupplied ==
    /\ Len(genOut.libInitcodeFns) = Len(GivenLibraries)
    /\ \A k \in 1..Len(GivenLibraries) :
          genOut.libInitcodeFns[k].name = GivenLibraries[k].paramName
    /\ Len(DeployLibraryStmts) = Len(GivenLibraries)
    /\ \A k \in 1..Len(GivenLibraries) :
          /\ DeployLibraryStmts[k].var = GivenLibraries[k].paramName
          /\ DeployLibraryStmts[k].fn = GivenLibraries[k].paramName
    /\ \A i, j \in 1..Len(genOut.deployBody) :
          /\ genOut.deployBody[i].stmt = "deployLibrary"
          /\ genOut.deployBody[j].stmt \in {"deploy", "initcode", "initcode+args"}
          => i < j

NothingInlined ==
    /\ genOut.libInitcodeFns = <<>>
    /\ DeployLibraryStmts = <<>>

\* C11 as stated: whenever the list of resolved libraries is non-empty, the
\* output has one private initcode accessor and one deployment statement per
\* resolved library, in the supplied order, before the main deployment, each
\* assigning to the variable named by the library's identifier.
C11_InlineWheneverLibraries ==
    genPc = "generated" /\ Len(GivenLibraries) > 0 => InlinedAsSupplied

\* C11: when the list of resolved libraries is non-empty and the artifact has
\* at least one link slot, the output has one private initcode accessor and
\* one deployment statement per resolved library, in the supplied order,
\* before the main deployment, each assigning to the variable named by the
\* library's identifier; when the artifact has no link slot nothing is
\* inlined, whatever list is supplied.
C11_InlineWhenLinked ==
    genPc = "generated" =>
        /\ Len(GivenLibraries) > 0 /\ GenSlots # {} => InlinedAsSupplied
        /\ GenSlots = {} => NothingInlined

\* two libraries are inlined, in the order given, for an artifact with a slot
C11_Witness ==
    /\ genPc = "generated"
    /\ GenSlots # {}
    /\ Len(GivenLibraries) = 2
    /\ GivenLibraries[1] # GivenLibraries[2]
    /\ Len(DeployLibraryStmts) = 2
    /\ Len(genOut.libInitcodeFns) = 2

IsAddressParam(q) == q.type = StrAddress /\ q.location = ""

IsLibPart(seg) == seg.type = "lib"

\* C12: with no resolved libraries and at least one link slot, deploy() takes,
\* after the constructor parameters, one address parameter per distinct
\* linked library (one even when the library has several slots), no library
\* deployment statement and no private accessor is written, and the initcode
\* concatenation has one placeholder segment per link slot.
C12_LegacyMode ==
    genPc = "generated" /\ GivenLibraries = <<>> /\ GenSlots # {} =>
        LET keys == {<<q.file, q.lib>> : q \in GenSlots}
            nCtor == Len(ConstructorInputs)
            dp == genOut.deployParams
        IN  /\ Len(dp) = nCtor + Cardinality(keys) + 1
            /\ \A k \in (nCtor + 1)..(Len(dp) - 1) :
                  /\ IsAddressParam(dp[k])
                  /\ \E key \in keys : dp[k].name = Decapitalized(key[2])
            /\ \A key \in keys : \E k \in (nCtor + 1)..(Len(dp) - 1) :
                  dp[k].name = Decapitalized(key[2])
            /\ dp[Len(dp)].name = StrSalt
            /\ NothingInlined
            /\ genOut.initcodeBody.ret = "abi.encodePacked"
            /\ Len(SelectSeq(genOut.initcodeBody.parts, IsLibPart))
                  = Cardinality(GenSlots)

\* one library linked at two offsets, a constructor parameter, no libraries
\* given: one address parameter, two placeholder segments
C12_Witness ==
    /\ genPc = "generated"
    /\ GivenLibraries = <<>>
    /\ Cardinality(GenSlots) = 2
    /\ Cardinality({<<q.file, q.lib>> : q \in GenSlots}) = 1
    /\ Len(ConstructorInputs) = 1
    /\ Len(genOut.deployParams) = 3
    /\ Len(SelectSeq(genOut.initcodeBody.parts, IsLibPart)) = 2

\* C13: an artifact without link slots is segmented into one literal segment
\* equal to the whole bytecode with no placeholder, deploy() and initcode()
\* take no library address, and the initcode is one literal byte string,
\* whatever libraries are given.
C13_NoLinkSlots ==
    genPc = "generated" /\ GenSlots = {} =>
        /\ buildBytecodeSegments(genParsed.bytecode, genParsed.linkReferences)
              = [segments |-> << [type |-> "hex", value |-> genParsed.bytecode] >>,
                 libParams |-> <<>>]
        /\ Len(genOut.deployParams) = Len(ConstructorInputs) + 1
        /\ genOut.deployParams[Len(genOut.deployParams)].name = StrSalt
        /\ genOut.initcodeParams = <<>>
        /\ genOut.initcodeBody
              = [ret |-> "hex", hex |-> genParsed.bytecode, parts |-> <<>>]

\* libraries are given for an artifact that links nothing
C13_Witness ==
    /\ genPc = "generated"
    /\ GenSlots = {}
    /\ genParsed.bytecode # <<>>
    /\ Len(GivenLibraries) > 0
    /\ genOut.initcodeBody.ret = "hex"

StmtsOf(kind) == {k \in 1..Len(genOut.deployBody) : genOut.deployBody[k].stmt = kind}

\* C14: the argument-encoding step (abi.encode of the arguments, appended to
\* the raw initcode) is written exactly when the constructor has at least one
\* parameter; with no constructor entry or no parameter the raw initcode of
\* the accessor is what is deployed.
C14_CtorArgStep ==
    genPc = "generated" =>
        /\ StmtsOf("abi.encode") # {} <=> Len(ConstructorInputs) > 0
        /\ StmtsOf("initcode+args") # {} <=> Len(ConstructorInputs) > 0
        /\ StmtsOf("initcode") # {} <=> Len(ConstructorInputs) = 0
        /\ Cardinality(StmtsOf("abi.encode") \cup StmtsOf("initcode+args")
                       \cup StmtsOf("initcode")) \in {1, 2}
        /\ \A k \in StmtsOf("abi.encode") :
              /\ Len(genOut.deployBody[k].args) = Len(ConstructorInputs)
              /\ k + 1 \in StmtsOf("initcode+args")
        /\ StmtsOf("deploy") = {Len(genOut.deployBody)}

\* a constructor entry that declares no inputs: the raw initcode is deployed
C14_Witness ==
    /\ genPc = "generated"
    /\ \E k \in 1..Len(genParsed.abi) :
          /\ genParsed.abi[k].type = "constructor"
          /\ genParsed.abi[k].inputs = Missing
    /\ StmtsOf("initcode") # {}
    /\ StmtsOf("abi.encode") = {}

(***************************************************************************)
(* Properties of struct discovery and of the deploy() signature            *)
(***************************************************************************)
\* a parameter of struct type as the compiler writes it, with its components
IsStructParam(p) ==
    /\ p.internalType # Undefined
    /\ StartsWith(p.internalType, StrStruct \o <<32>>)
    /\ p.components # Missing

\* the struct-typed parameters of a parameter tree, at every depth
RECURSIVE StructNodes(_)
StructNodes(params) ==
    UNION { IF IsStructParam(params[k])
            THEN {params[k]} \cup StructNodes(params[k].components)
            ELSE {} : k \in 1..Len(params) }

\* the struct names the constructor's parameter tree mentions
TreeStructNames ==
    {extractStructName(p.internalType) : p \in StructNodes(ConstructorInputs)}

\* a run of array suffixes: "[]", "[2]", "[][3]", ...
IsSuffixRun(str) ==
    /\ Len(str) >= 2
    /\ str[1] = 91
    /\ str[Len(str)] = 93
    /\ \A k \in 1..(Len(str) - 1) :
          /\ str[k] \in {91, 93} \/ IsDigit(str[k])
          /\ str[k] = 93 => str[k + 1] = 91
          /\ str[k] # 93 => IsDigit(str[k + 1]) \/ str[k + 1] = 93

\* a type without its trailing array suffixes
WithoutSuffixes(type) ==
    LET cuts == {n \in 0..Len(type) :
                    n = Len(type) \/ IsSuffixRun(SubSeq(type, n + 1, Len(type)))}
    IN  SubSeq(type, 1, CHOOSE n \in cuts : \A m \in cuts : n <= m)

\* C22: the struct definitions collectStructDefs returns have pairwise
\* distinct names, and every struct type a field of a definition names (array
\* suffixes stripped) is defined at an earlier position of the list.
C22_StructDefsOrdered ==
    genPc = "generated" =>
        /\ \A i, j \in 1..Len(genOut.structDefs) :
              genOut.structDefs[i].name = genOut.structDefs[j].name => i = j
        /\ \A k \in 1..Len(genOut.structDefs) :
              \A f \in 1..Len(genOut.structDefs[k].fields) :
                  WithoutSuffixes(genOut.structDefs[k].fields[f].type)
                      \in TreeStructNames =>
                  \E j \in 1..(k - 1) :
                      genOut.structDefs[j].name =
                          WithoutSuffixes(genOut.structDefs[k].fields[f].type)

\* two parameters of struct types with the same derived name were given, and a
\* definition with a field of an earlier defined struct type was written
C22_Witness ==
    /\ genPc = "generated"
    /\ Len(genOut.structDefs) = 2
    /\ \E f \in 1..Len(genOut.structDefs[2].fields) :
          WithoutSuffixes(genOut.structDefs[2].fields[f].type)
              = genOut.structDefs[1].name
    /\ \E i, j \in 1..Len(ConstructorInputs) :
          /\ i < j
          /\ IsStructParam(ConstructorInputs[i])
          /\ IsStructParam(ConstructorInputs[j])
          /\ ConstructorInputs[i].internalType # ConstructorInputs[j].internalType
          /\ extractStructName(ConstructorInputs[i].internalType)
                 = extractStructName(ConstructorInputs[j].internalType)

\* the visits the walk makes for the constructor's parameters
StructVisits ==
    walkEach(ConstructorInputs, 1, [seen |-> <<>>, visits |-> <<>>]).visits

\* C23: when the walk meets a struct-typed parameter whose derived name is
\* already recorded, it visits none of the parameter's components and leaves
\* the recorded set as it found it.
C23_NoRewalk ==
    genPc = "generated" =>
        \A v \in 1..Len(StructVisits) :
            (\E k \in 1..Len(StructVisits[v].before) :
                StructVisits[v].before[k].name = StructVisits[v].name) =>
                /\ StructVisits[v].walked = 0
                /\ StructVisits[v].after = StructVisits[v].before

\* the names of the recorded structs
RecordedStructs ==
    {genOut.structDefs[k].name : k \in 1..Len(genOut.structDefs)}

\* C24: a constructor parameter of deploy() is passed in memory exactly when
\* its rendered type is string or bytes, or ends in an array suffix, or is the
\* name of a recorded struct once its array suffixes are stripped; every other
\* parameter is passed by value.
C24_MemoryPassing ==
    genPc = "generated" =>
        \A i \in 1..Len(ConstructorInputs) :
            /\ genOut.deployParams[i].location \in {"memory", ""}
            /\ genOut.deployParams[i].location = "memory" <=>
                  \/ genOut.deployParams[i].type \in {StrString, StrBytes}
                  \/ WithoutSuffixes(genOut.deployParams[i].type)
                         # genOut.deployParams[i].type
                  \/ WithoutSuffixes(genOut.deployParams[i].type)
                         \in RecordedStructs

\* a parameter of a recorded struct type, no array, is passed in memory next to
\* a parameter passed by value
C24_Witness ==
    /\ genPc = "generated"
    /\ \E i, j \in 1..Len(ConstructorInputs) :
          /\ genOut.deployParams[i].type \in RecordedStructs
          /\ genOut.deployParams[i].location = "memory"
          /\ genOut.deployParams[j].location = ""

\* C25: the i-th constructor parameter of deploy() is named by the ABI when
\* the ABI names it and argN otherwise, N being its position counted from 0,
\* and the arguments of abi.encode are these names, as many and in this order.
C25_PositionalNames ==
    genPc = "generated" =>
        /\ Len(genOut.deployParams) >= Len(ConstructorInputs)
        /\ \A i \in 1..Len(ConstructorInputs) :
              genOut.deployParams[i].name =
                  IF ConstructorInputs[i].name # <<>>
                  THEN ConstructorInputs[i].name
                  ELSE StrArg \o <<48 + (i - 1)>>
        /\ Len(ConstructorInputs) > 0 => StmtsOf("abi.encode") # {}
        /\ \A k \in StmtsOf("abi.encode") :
              genOut.deployBody[k].args =
                  [i \in 1..Len(ConstructorInputs) |-> genOut.deployParams[i].name]

\* a named parameter is followed by an unnamed one
C25_Witness ==
    /\ genPc = "generated"
    /\ Len(ConstructorInputs) >= 2
    /\ ConstructorInputs[1].name # <<>>
    /\ ConstructorInputs[2].name = <<>>
    /\ genOut.deployParams[2].name = StrArg \o <<49>>
    /\ StmtsOf("abi.encode") # {}

(***************************************************************************)
(* Properties of resolution followed by generation                         *)
(***************************************************************************)
\* the libraries a bytecode has placeholders for
WiredKeys(lr) == {keyOf(slot) : slot \in SlotSet(lr)}

\* the lowest byte offset at which a library has a placeholder
FirstStart(lr, key) ==
    CHOOSE n \in {slot.start : slot \in {q \in SlotSet(lr) : keyOf(q) = key}} :
        \A slot \in SlotSet(lr) : keyOf(slot) = key => n <= slot.start

\* the position of the address of a library among the arguments of the
\* initcode function: libraries in the order of their first placeholder
ArgPos(lr, key) ==
    1 + Cardinality({other \in WiredKeys(lr) :
                        FirstStart(lr, other) < FirstStart(lr, key)})

\* the library deployment statements, before a position of the deploy body,
\* that declare a variable of the name
Declaring(name, pos) ==
    {j \in 1..(pos - 1) :
        /\ genOut.deployBody[j].stmt = "deployLibrary"
        /\ genOut.deployBody[j].var = name}

\* the arguments of a call at a position fill the placeholders of lr: each is
\* declared before, and by the deployment of the placeholder's library
WiredTo(args, lr, pos) ==
    /\ Len(args) = Cardinality(WiredKeys(lr))
    /\ \A key \in WiredKeys(lr) :
          /\ Declaring(args[ArgPos(lr, key)], pos) # {}
          /\ \A j \in Declaring(args[ArgPos(lr, key)], pos) : keyOf(libs[j]) = key

\* C27: when the libraries resolveLibraries returned for an artifact are given
\* to generateDeployer with that artifact, every address argument of deploy(),
\* to a library's initcode function and to initcode(), is a variable declared
\* by an earlier library deployment statement, the one of the library with the
\* key of the placeholder the argument fills, also when the names of two
\* libraries decapitalize alike.
C27_AddressWiring ==
    (genPc = "generated" /\ Len(linkRefs) > 0) =>
        /\ \A k \in 1..Len(libs) :
              /\ genOut.deployBody[k].stmt = "deployLibrary"
              /\ WiredTo(genOut.deployBody[k].args,
                         libs[k].artifact.linkReferences, k)
        /\ \A k \in StmtsOf("initcode") \cup StmtsOf("initcode+args") :
              WiredTo(genOut.deployBody[k].args, linkRefs, k)

(***************************************************************************)
(* Properties of DeployHelper                                              *)
(***************************************************************************)
\* an initcode that deploys code, as the initcode of a library does
DeploysCode(initcode) ==
    RunInitcode(initcode).ok /\ RunInitcode(initcode).runtime # <<>>

\* C15: over any sequence of calls from one deployer, deployLibrary executes
\* the creation at most once per library initcode; a call whose computed
\* address (zero salt, hash of the initcode) already holds code creates
\* nothing and returns that address, so every caller gets the same address
\* for the same library.
C15_DeployLibraryDedup ==
    /\ \A d \in Deployers, ic \in Initcodes :
          DeploysCode(ic) => libCreates[Create2Address(d, 0, ic)] <= 1
    /\ lastCall.fn = "deployLibrary" /\ lastCall.codeBefore # <<>> =>
          /\ ~lastCall.created
          /\ ~lastCall.reverted
          /\ lastCall.address
                = Create2Address(lastCall.deployer, 0, lastCall.initcode)
    /\ \A r1, r2 \in results :
          r1.deployer = r2.deployer /\ r1.initcode = r2.initcode
          => r1.address = r2.address
    /\ \A r \in results : r.address = Create2Address(r.deployer, 0, r.initcode)

\* a library deployed by an earlier deployLibrary call is asked for again
C15_Witness ==
    /\ lastCall.fn = "deployLibrary"
    /\ lastCall.codeBefore # <<>>
    /\ libCreates[Create2Address(lastCall.deployer, 0, lastCall.initcode)] = 1
    /\ lastCall.address = Create2Address(lastCall.deployer, 0, lastCall.initcode)
    /\ nCalls >= 2

(***************************************************************************)
(* Properties of findArtifact and parseArtifact                            *)
(***************************************************************************)
IsUpperHex(c) == c >= 65 /\ c <= 70

\* the bytecode.object string of the parsed file, "" when absent
GivenHex ==
    IF artRaw.bytecode = NoFile THEN <<>>
    ELSE IF artRaw.bytecode.object = Undefined THEN <<>>
    ELSE artRaw.bytecode.object

WithoutPrefix(str) ==
    IF Len(str) >= 2 /\ str[1] = 48 /\ str[2] = 120
    THEN SubSeq(str, 3, Len(str)) ELSE str

Lowercased(str) == [k \in 1..Len(str) |-> ToLowerCase(str[k])]

\* C16: the bytecode parseArtifact stores has no uppercase hex digit and is
\* the lowercased input without its 0x prefix.
C16_LowercaseNormalized ==
    artPc = "parsed" =>
        /\ \A k \in 1..Len(artParsed.bytecode) : ~IsUpperHex(artParsed.bytecode[k])
        /\ artParsed.bytecode = Lowercased(WithoutPrefix(GivenHex))

\* the directories of outDir that hold the artifact file
Candidates ==
    {k \in 1..Len(artDir) : artDir[k].isDirectory /\ artDir[k].json # NoFile}

\* C19: the lookup fails with a not-found error when there is no candidate,
\* fails with an ambiguity error when there are several, and returns a path
\* only when there is exactly one.
C19_LookupExactlyOne ==
    artPc = "found" =>
        /\ Cardinality(Candidates) = 0 => artFound.threw = "No artifact found"
        /\ Cardinality(Candidates) > 1 => artFound.threw = "Multiple artifacts found"
        /\ artFound.threw = "none" =>
              /\ Cardinality(Candidates) = 1
              /\ artFound.path \in Candidates

=============================================================================
